---------------------------- MODULE Spec2Model ----------------------------
(***************************************************************************)
(* The analysis pipeline of the HR platform backend:                       *)
(*   OpenAIService (services/openaiService.js)  - adapter and interpreter  *)
(*   DataService   (services/dataService.js)    - subject and record store *)
(*   routes/employees.js, routes/health.js      - the request handlers     *)
(*                                                                         *)
(* Numbers are kept in tenths (ScoreScale): 7.5 is 75, the range [1,10]    *)
(* is 10..100.  Strings are sequences of one-character strings.            *)
(***************************************************************************)
EXTENDS Integers, Sequences, FiniteSets, TLC

(***************************************************************************)
(* Bounds of the model.                                                    *)
(***************************************************************************)
\* longest string value the provider's object may carry in a field
MaxStrLen == 2
\* longest provider reply, in tokens
MaxReplyLen == 3

\* one unit of the model is a tenth
ScoreScale == 10

(***************************************************************************)
(* JavaScript values as the interpreter sees them after JSON.parse.        *)
(*   t = "undef" | "null" | "bool" | "num" | "str" | "arr" | "obj"         *)
(*   n = the number (tenths) or the boolean (0/1)                          *)
(*   s = the characters of a string, or the elements of an array           *)
(***************************************************************************)
Undefined == [t |-> "undef", n |-> 0, s |-> <<>>]
Null == [t |-> "null", n |-> 0, s |-> <<>>]
Bool(b) == [t |-> "bool", n |-> IF b THEN 1 ELSE 0, s |-> <<>>]
Num(n) == [t |-> "num", n |-> n, s |-> <<>>]
Str(s) == [t |-> "str", n |-> 0, s |-> s]
Arr(s) == [t |-> "arr", n |-> 0, s |-> s]
Obj == [t |-> "obj", n |-> 0, s |-> <<>>]

\* the characters strings are made of: two digits, a sign and a letter
Chars == {"1", "9", "-", "x"}
Digits == {"1", "9"}

DigitVal(c) == IF c = "1" THEN 1 ELSE 9

SeqsUpTo(S, n) == UNION {[1..k -> S] : k \in 0..n}

\* the numbers the provider's object may carry: -2, 0.5, 1, 7.5, 10, 10.1, 15
RawNums == {-20, 5, 10, 75, 100, 101, 150}

\* every value a field of the provider's object may hold
RawVals ==
  {Undefined, Null, Bool(TRUE), Bool(FALSE), Obj}
    \cup {Num(n) : n \in RawNums}
    \cup {Str(s) : s \in SeqsUpTo(Chars, MaxStrLen)}
    \cup {Arr(s) : s \in SeqsUpTo(Chars, 1)}

(***************************************************************************)
(* parseFloat(String(v)).  NaN is [nan |-> TRUE].                          *)
(***************************************************************************)
NaN == [nan |-> TRUE, v |-> 0]
Finite(v) == [nan |-> FALSE, v |-> v]

\* the end of the run of digits of s that starts at i (i-1 when there is none)
RECURSIVE DigitsEnd(_, _)
DigitsEnd(s, i) ==
  IF i <= Len(s) /\ s[i] \in Digits THEN DigitsEnd(s, i + 1) ELSE i - 1

\* the decimal value of the digits s[i..j]
RECURSIVE DigitsValue(_, _, _)
DigitsValue(s, i, j) ==
  IF j < i THEN 0 ELSE DigitsValue(s, i, j - 1) * 10 + DigitVal(s[j])

\* parseFloat of a string: an optional sign, then the longest run of digits;
\* what follows the digits is ignored, and no digits at all is NaN
ParseFloatStr(s) ==
  LET neg == Len(s) >= 1 /\ s[1] = "-"
      from == IF neg THEN 2 ELSE 1
      to == DigitsEnd(s, from)
  IN  IF to < from THEN NaN
      ELSE Finite((IF neg THEN -1 ELSE 1) * DigitsValue(s, from, to) * ScoreScale)

\* String(array): the elements joined by ","
RECURSIVE JoinComma(_)
JoinComma(a) ==
  IF Len(a) = 0 THEN <<>>
  ELSE IF Len(a) = 1 THEN <<a[1]>>
  ELSE <<a[1], ",">> \o JoinComma(Tail(a))

ParseFloat(v) ==
  CASE v.t = "num" -> Finite(v.n)
    [] v.t = "str" -> ParseFloatStr(v.s)
    [] v.t = "arr" -> ParseFloatStr(JoinComma(v.s))
    [] OTHER -> NaN

\* a value used as the left operand of ||
Truthy(v) ==
  CASE v.t = "undef" -> FALSE
    [] v.t = "null" -> FALSE
    [] v.t = "bool" -> v.n = 1
    [] v.t = "num" -> v.n # 0
    [] v.t = "str" -> Len(v.s) > 0
    [] OTHER -> TRUE

Max(a, b) == IF a >= b THEN a ELSE b
Min(a, b) == IF a <= b THEN a ELSE b


(***************************************************************************)
(* The provider's reply.  A reply text is a sequence of tokens:            *)
(*   "F"  a code fence         "{" "}"  braces                             *)
(*   "m"  the members of an object, "key": value, ...                      *)
(*   "5"  the number literal 5    "n"  the literal null    "x"  prose      *)
(* The members "m" stand for are the fields of the reply's object.         *)
(***************************************************************************)
Tokens == {"F", "{", "}", "m", "5", "n", "x"}

\* message.content: a string, or null / undefined
NoContent == [present |-> FALSE, text |-> <<>>]
Content(text) == [present |-> TRUE, text |-> text]

EmployeeScoreFields ==
  {"overallScore", "performanceScore", "skillsScore", "potentialScore"}
EmployeeArrayFields == {"strengths", "improvements"}
EmployeeTextFields == {"developmentPlan", "riskAssessment", "careerPath"}
TeamScoreFields ==
  {"teamScore", "collaborationScore", "communicationScore", "productivityScore"}
TeamArrayFields == {"strengths", "risks", "suggestions", "actionPlan"}

FieldNames ==
  EmployeeScoreFields \cup EmployeeArrayFields \cup EmployeeTextFields
    \cup TeamScoreFields \cup TeamArrayFields

\* the result of JSON.parse: an object with its fields, or a scalar
JsonObject(fields) == [t |-> "obj", n |-> 0, f |-> fields]
JsonScalar(v) == [t |-> v.t, n |-> v.n, f |-> [k \in FieldNames |-> Undefined]]
EmptyObject == JsonObject([k \in FieldNames |-> Undefined])

\* analysis.<name>: a property of a number is undefined
Get(doc, name) == IF doc.t = "obj" THEN doc.f[name] ELSE Undefined

(***************************************************************************)
(* extractJSON: the first regular expression that matches decides.         *)
(***************************************************************************)
\* the fenced-block pattern: the leftmost fence followed by "{", then,
\* greedily, up to the last "}" that is followed by a fence
FenceStarts(c) ==
  {i \in 1..Len(c) :
     /\ c[i] = "F"
     /\ i + 1 <= Len(c) /\ c[i + 1] = "{"
     /\ \E k \in (i + 2)..Len(c) : c[k] = "}" /\ k + 1 <= Len(c) /\ c[k + 1] = "F"}

SetMin(S) == CHOOSE x \in S : \A y \in S : x <= y
SetMax(S) == CHOOSE x \in S : \A y \in S : x >= y

FenceMatch(c) ==
  LET i == SetMin(FenceStarts(c))
      k == SetMax({j \in (i + 2)..Len(c) :
                     c[j] = "}" /\ j + 1 <= Len(c) /\ c[j + 1] = "F"})
  IN  SubSeq(c, i + 1, k)

\* the object pattern, greedy: from the first "{" to the last "}" of the text
ObjectStarts(c) ==
  {i \in 1..Len(c) : c[i] = "{" /\ \E k \in (i + 1)..Len(c) : c[k] = "}"}

ObjectMatch(c) ==
  LET i == SetMin(ObjectStarts(c))
      k == SetMax({j \in (i + 1)..Len(c) : c[j] = "}"})
  IN  SubSeq(c, i, k)

\* extractJSON(content) for a string content
ExtractJSON(c) ==
  IF FenceStarts(c) # {} THEN FenceMatch(c)
  ELSE IF ObjectStarts(c) # {} THEN ObjectMatch(c)
  ELSE c

(***************************************************************************)
(* JSON.parse of a span of tokens; fields are what "m" stands for.         *)
(***************************************************************************)
JsonParses(span) ==
  span \in {<<"{", "m", "}">>, <<"{", "}">>, <<"5">>, <<"n">>}

JsonParse(span, fields) ==
  CASE span = <<"{", "m", "}">> -> JsonObject(fields)
    [] span = <<"{", "}">> -> EmptyObject
    [] span = <<"5">> -> JsonScalar(Num(5 * ScoreScale))
    [] OTHER -> JsonScalar(Null)

(***************************************************************************)
(* Field validation.                                                       *)
(***************************************************************************)
DefaultScore == 75

ValidateScoreUnclamped(score) ==
  LET num == ParseFloat(score)
  IN  IF num.nan THEN DefaultScore ELSE num.v

\* validateScore
ValidateScore(score) ==
  LET num == ParseFloat(score)
  IN  IF num.nan THEN DefaultScore
      ELSE Max(1 * ScoreScale, Min(10 * ScoreScale, num.v))

ValidateArrayKeep(v, placeholder) == v

\* Array.isArray(v) ? v : [placeholder]
ValidateArray(v, placeholder) == IF v.t = "arr" THEN v ELSE Arr(<<placeholder>>)

\* v || default
OrDefault(v, default) == IF Truthy(v) THEN v ELSE Str(<<default>>)

\* validateEmployeeAnalysis, for an analysis that is not null
ValidateEmployeeAnalysis(analysis) ==
  [overallScore |-> ValidateScore(Get(analysis, "overallScore")),
   performanceScore |-> ValidateScore(Get(analysis, "performanceScore")),
   skillsScore |-> ValidateScore(Get(analysis, "skillsScore")),
   potentialScore |-> ValidateScore(Get(analysis, "potentialScore")),
   strengths |-> ValidateArray(Get(analysis, "strengths"), "skills are good"),
   improvements |->
     ValidateArray(Get(analysis, "improvements"), "keep learning new skills"),
   developmentPlan |->
     OrDefault(Get(analysis, "developmentPlan"), "make a personal development plan"),
   riskAssessment |-> OrDefault(Get(analysis, "riskAssessment"), "overall risk is low"),
   careerPath |-> OrDefault(Get(analysis, "careerPath"), "raise expertise step by step")]

\* validateTeamAnalysis, for an analysis that is not null
ValidateTeamAnalysis(analysis) ==
  [teamScore |-> ValidateScore(Get(analysis, "teamScore")),
   collaborationScore |-> ValidateScore(Get(analysis, "collaborationScore")),
   communicationScore |-> ValidateScore(Get(analysis, "communicationScore")),
   productivityScore |-> ValidateScore(Get(analysis, "productivityScore")),
   strengths |-> ValidateArray(Get(analysis, "strengths"), "team works well together"),
   risks |-> ValidateArray(Get(analysis, "risks"), "watch the workload"),
   suggestions |->
     ValidateArray(Get(analysis, "suggestions"), "strengthen team communication"),
   actionPlan |->
     ValidateArray(Get(analysis, "actionPlan"), "raise collaboration efficiency")]

(***************************************************************************)
(* The heuristic text path.                                                *)
(***************************************************************************)
DevelopmentPlanPrefix == 200
ActionPlanPrefix == 100

\* content.slice(0, n)
SliceTo(text, n) == SubSeq(text, 1, Min(n, Len(text)))

\* parseEmployeeTextResponse, for a string content
ParseEmployeeTextResponse(text) ==
  [overallScore |-> 80,
   performanceScore |-> 82,
   skillsScore |-> 78,
   potentialScore |-> 85,
   strengths |-> Arr(<<"strengths identified by the AI analysis">>),
   improvements |-> Arr(<<"improvements suggested by the AI analysis">>),
   developmentPlan |-> Str(SliceTo(text, DevelopmentPlanPrefix) \o <<"...">>),
   riskAssessment |-> Str(<<"needs further assessment">>),
   careerPath |-> Str(<<"consult a professional adviser">>)]

\* parseTeamTextResponse, for a string content
ParseTeamTextResponse(text) ==
  [teamScore |-> 80,
   collaborationScore |-> 82,
   communicationScore |-> 75,
   productivityScore |-> 83,
   strengths |-> Arr(<<"team strengths from the AI analysis">>),
   risks |-> Arr(<<"potential risks to watch">>),
   suggestions |-> Arr(<<"optimisations generated by the AI">>),
   actionPlan |->
     Arr(<<"team optimisation plan">> \o SliceTo(text, ActionPlanPrefix) \o <<"...">>)]

(***************************************************************************)
(* The interpreter: parseEmployeeAnalysis, parseTeamAnalysis.              *)
(* A result is {success, data, source}; thrown marks a call that raised.   *)
(***************************************************************************)
NoData == [none |-> TRUE]
Thrown == [thrown |-> TRUE, success |-> FALSE, data |-> NoData, source |-> "none"]
Result(data, source) ==
  [thrown |-> FALSE, success |-> TRUE, data |-> data, source |-> source]

\* the try block of parseEmployeeAnalysis / parseTeamAnalysis completes:
\* content is a string, the extracted span parses, and what it parses to
\* is not null (validate reads properties of it)
StrictParseSucceeds(content) ==
  /\ content.present
  /\ JsonParses(ExtractJSON(content.text))
  /\ JsonParse(ExtractJSON(content.text), [k \in FieldNames |-> Undefined]).t # "null"

\* parseEmployeeAnalysis.  With content null or undefined, extractJSON raises
\* inside the try block and content.slice raises again inside the catch block.
ParseEmployeeAnalysis(content, fields) ==
  IF StrictParseSucceeds(content)
    THEN Result(ValidateEmployeeAnalysis(JsonParse(ExtractJSON(content.text), fields)),
                "openai")
  ELSE IF content.present
    THEN Result(ParseEmployeeTextResponse(content.text), "openai-parsed")
  ELSE Thrown

\* parseTeamAnalysis
ParseTeamAnalysis(content, fields) ==
  IF StrictParseSucceeds(content)
    THEN Result(ValidateTeamAnalysis(JsonParse(ExtractJSON(content.text), fields)),
                "openai")
  ELSE IF content.present
    THEN Result(ParseTeamTextResponse(content.text), "openai-parsed")
  ELSE Thrown

(***************************************************************************)
(* The mock generator and the fallback.                                    *)
(***************************************************************************)
\* getMockEmployeeAnalysis
GetMockEmployeeAnalysis(employee) ==
  Result([overallScore |-> 82,
          performanceScore |-> 85,
          skillsScore |-> 78,
          potentialScore |-> 87,
          strengths |-> Arr(<<employee.position, "learns fast", "cooperates actively",
                              "solves problems well">>),
          improvements |-> Arr(<<"deepen technical skills", "work across departments",
                                 "take on more leadership">>),
          developmentPlan |-> Str(<<"six month plan for", employee.name>>),
          riskAssessment |-> Str(<<"overall risk is low, review regularly">>),
          careerPath |-> Str(<<"towards senior", employee.position>>)],
         "mock")

\* getMockTeamAnalysis
GetMockTeamAnalysis(team) ==
  Result([teamScore |-> 84,
          collaborationScore |-> 87,
          communicationScore |-> 81,
          productivityScore |-> 86,
          strengths |-> Arr(<<"strong cohesion", "complementary skills",
                              "efficient communication", "eager to learn">>),
          risks |-> Arr(<<"key members overloaded", "no backup staff",
                          "little cross-department experience">>),
          suggestions |-> Arr(<<"share knowledge", "review workload regularly",
                                "cooperate across departments", "set up mentoring">>),
          actionPlan |-> Arr(<<"knowledge sharing", "workload optimisation",
                               "cross-department plan">>)],
         "mock")

\* getFallbackEmployeeAnalysis
GetFallbackEmployeeAnalysis(employee) == GetMockEmployeeAnalysis(employee)

\* getFallbackTeamAnalysis
GetFallbackTeamAnalysis(team) == GetMockTeamAnalysis(team)

(***************************************************************************)
(* The adapter.  What the provider does with one call:                     *)
(*   "reject"     the call raises: network, timeout, auth, rate limit      *)
(*   "nochoices"  it resolves with a response that has no choices[0]       *)
(*   "reply"      it resolves with message.content = content               *)
(***************************************************************************)
Reject == [kind |-> "reject", content |-> NoContent]
NoChoices == [kind |-> "nochoices", content |-> NoContent]
Reply(content) == [kind |-> "reply", content |-> content]

\* the try block of analyzeEmployee without its catch
AnalyzeEmployeeNoCatch(hasClient, employeeData, outcome, fields) ==
  IF ~hasClient THEN GetMockEmployeeAnalysis(employeeData)
  ELSE IF outcome.kind # "reply" THEN Thrown
  ELSE ParseEmployeeAnalysis(outcome.content, fields)

\* analyzeEmployee: this.client, the subject, what the provider does
AnalyzeEmployee(hasClient, employeeData, outcome, fields) ==
  IF ~hasClient THEN GetMockEmployeeAnalysis(employeeData)
  ELSE IF outcome.kind # "reply" THEN GetFallbackEmployeeAnalysis(employeeData)
  ELSE LET parsed == ParseEmployeeAnalysis(outcome.content, fields)
       IN  IF parsed.thrown THEN GetFallbackEmployeeAnalysis(employeeData)
           ELSE parsed

\* analyzeTeam
AnalyzeTeam(hasClient, teamData, outcome, fields) ==
  IF ~hasClient THEN GetMockTeamAnalysis(teamData)
  ELSE IF outcome.kind # "reply" THEN GetFallbackTeamAnalysis(teamData)
  ELSE LET parsed == ParseTeamAnalysis(outcome.content, fields)
       IN  IF parsed.thrown THEN GetFallbackTeamAnalysis(teamData)
           ELSE parsed

CallsProviderAlways(client) == TRUE

\* if (!this.client) return the mock: whether an analyze call goes on to
\* this.client.chat.completions.create
CallsProvider(client) == client

(***************************************************************************)
(* The record store: DataService.saveAnalysis, getAnalysisHistory.         *)
(***************************************************************************)
\* the record cap of saveAnalysis (1000 in the code), scaled to the model
MaxAnalyses == 2
\* saveAnalysis calls in one run of the store
MaxRecordsMade == 4
\* analyze requests in one run of the routes
MaxAnalyzed == 2
\* the clock's last value
MaxClock == 1
\* failures of file reads and writes the environment may inject in one run
MaxFaults == 1
\* callers of the store at once
NumRequests == 2

Requests == 1..NumRequests

\* a file: absent, holding a JSON document (data), or holding text that does
\* not parse (a write that failed half way)
AbsentFile == [state |-> "absent", data |-> <<>>]
FileWith(data) == [state |-> "ok", data |-> data]
CorruptFile == [state |-> "corrupt", data |-> <<>>]

\* fs.readFile + JSON.parse complete: the file is there, parses, and the
\* read itself did not fail
ReadSucceeds(file, fault) == file.state = "ok" /\ ~fault

\* the metadata object of a record: the request's keys are spread last
RecordMetadata(analysis, timestamp, metadata) ==
  metadata @@ [source |-> analysis.source,
               success |-> analysis.success,
               timestamp |-> timestamp]

\* the analysisRecord saveAnalysis builds before it reads the file
AnalysisRecord(id, type, targetId, analysis, timestamp, metadata) ==
  [id |-> id,
   type |-> type,
   targetId |-> targetId,
   analysis |-> analysis.data,
   metadata |-> RecordMetadata(analysis, timestamp, metadata)]

\* analyses.slice(-1000)
KeepLast(analyses, n) ==
  IF Len(analyses) > n
    THEN SubSeq(analyses, Len(analyses) - n + 1, Len(analyses))
    ELSE analyses

\* analyses.push(analysisRecord), then the cap
PushAndCap(analyses, record) == KeepLast(Append(analyses, record), MaxAnalyses)

\* the array saveAnalysis writes, from what its read gave
AnalysesToWrite(file, fault, record) ==
  PushAndCap(IF ReadSucceeds(file, fault) THEN file.data ELSE <<>>, record)

\* Array.prototype.filter
RECURSIVE Filter(_, _, _)
Filter(analyses, type, targetId) ==
  IF Len(analyses) = 0 THEN <<>>
  ELSE LET rest == Filter(Tail(analyses), type, targetId)
       IN  IF Head(analyses).type = type /\ Head(analyses).targetId = targetId
             THEN <<Head(analyses)>> \o rest
             ELSE rest

\* one record put into a list sorted by timestamp, newest first, after the
\* records of its own timestamp (the sort is stable)
RECURSIVE InsertByTimestamp(_, _)
InsertByTimestamp(sorted, a) ==
  IF Len(sorted) = 0 THEN <<a>>
  ELSE IF Head(sorted).metadata.timestamp >= a.metadata.timestamp
    THEN <<Head(sorted)>> \o InsertByTimestamp(Tail(sorted), a)
    ELSE <<a>> \o sorted

\* .sort((a, b) => new Date(b.metadata.timestamp) - new Date(a.metadata.timestamp))
RECURSIVE SortNewestFirst(_)
SortNewestFirst(analyses) ==
  IF Len(analyses) = 0 THEN <<>>
  ELSE InsertByTimestamp(SortNewestFirst(SubSeq(analyses, 1, Len(analyses) - 1)),
                         analyses[Len(analyses)])

\* .slice(0, limit); a negative limit counts from the end
SliceLimit(analyses, limit) ==
  IF limit >= 0 THEN SubSeq(analyses, 1, Min(limit, Len(analyses)))
  ELSE SubSeq(analyses, 1, Max(Len(analyses) + limit, 0))

\* the body of getAnalysisHistory's try block, whatever the read gave
GetAnalysisHistoryNoCatch(file, fault, type, targetId, limit) ==
  SliceLimit(SortNewestFirst(Filter(file.data, type, targetId)), limit)

\* getAnalysisHistory: what it returns from the file and the read's outcome
GetAnalysisHistory(file, fault, type, targetId, limit) ==
  IF ReadSucceeds(file, fault)
    THEN SliceLimit(SortNewestFirst(Filter(file.data, type, targetId)), limit)
    ELSE <<>>

\* a latest that takes the other end of the sorted history
GetLatestAnalysisOldest(file, fault, type, targetId) ==
  LET history == GetAnalysisHistory(file, fault, type, targetId, Len(file.data) + 1)
  IN  IF Len(history) > 0 THEN history[Len(history)]
      ELSE [id |-> 0, type |-> "none", targetId |-> "none", analysis |-> [none |-> TRUE],
            metadata |-> [source |-> "none", success |-> FALSE, timestamp |-> 0]]

\* getLatestAnalysis: history[0] || null (NoRecord is null)
GetLatestAnalysis(file, fault, type, targetId) ==
  LET history == GetAnalysisHistory(file, fault, type, targetId, 1)
  IN  IF Len(history) > 0 THEN history[1]
      ELSE [id |-> 0, type |-> "none", targetId |-> "none", analysis |-> [none |-> TRUE],
            metadata |-> [source |-> "none", success |-> FALSE, timestamp |-> 0]]

\* the clock counts days
WeekDays == 7
\* getMonth() and getFullYear() of a day, a month taken as 30 days
MonthOf(t) == t \div 30

\* source?.includes('fallback')
IncludesFallback(source) == source \in {"fallback", "error-fallback"}

\* analyses.filter(test).length, the records that pass given as a set
CountOf(analyses, passing) ==
  Cardinality({i \in 1..Len(analyses) : analyses[i] \in passing})

ZeroStats ==
  [total |-> 0, thisMonth |-> 0, thisWeek |-> 0,
   byType |-> [employee |-> 0, team |-> 0],
   bySource |-> [openai |-> 0, mock |-> 0, fallback |-> 0]]

\* getAnalysisStats, read at time clock
GetAnalysisStats(file, fault, clock) ==
  IF ReadSucceeds(file, fault)
    THEN LET analyses == file.data
             all == {analyses[i] : i \in 1..Len(analyses)}
         IN  [total |-> Len(analyses),
              thisMonth |->
                CountOf(analyses,
                        {a \in all : MonthOf(a.metadata.timestamp) = MonthOf(clock)}),
              thisWeek |->
                CountOf(analyses, {a \in all : a.metadata.timestamp >= clock - WeekDays}),
              byType |->
                [employee |-> CountOf(analyses, {a \in all : a.type = "employee"}),
                 team |-> CountOf(analyses, {a \in all : a.type = "team"})],
              bySource |->
                [openai |-> CountOf(analyses, {a \in all : a.metadata.source = "openai"}),
                 mock |-> CountOf(analyses, {a \in all : a.metadata.source = "mock"}),
                 fallback |->
                   CountOf(analyses, {a \in all : IncludesFallback(a.metadata.source)})]]
    ELSE ZeroStats

\* req.query.limit: absent, or a number
NoLimit == [given |-> FALSE, n |-> 0]
LimitGiven(n) == [given |-> TRUE, n |-> n]
DefaultLimit == 10

\* parseInt(req.query.limit) || 10
RouteLimit(query) == IF query.given /\ query.n # 0 THEN query.n ELSE DefaultLimit

(***************************************************************************)
(* The subject store: getAllEmployees, getEmployee, getAllTeams, getTeam.  *)
(***************************************************************************)
\* getDefaultEmployees (the first two of the five)
DefaultEmployees ==
  <<[id |-> "1", name |-> "Zhang", position |-> "frontend engineer"],
    [id |-> "2", name |-> "Li", position |-> "backend engineer"]>>

\* getDefaultTeams (the first of the five, with its first member)
DefaultTeams ==
  <<[id |-> "1", name |-> "frontend team", position |-> "team", memberCount |-> 8,
     members |-> <<"1">>]>>

NoSubject == [id |-> "none", name |-> "none", position |-> "none"]

\* a find whose test always passes: the first of the list for any id
FindAny(subjects, id) == IF Len(subjects) > 0 THEN subjects[1] ELSE NoSubject

\* employees.find(emp => emp.id === id)
Find(subjects, id) ==
  IF \E i \in 1..Len(subjects) : subjects[i].id = id
    THEN subjects[CHOOSE i \in 1..Len(subjects) :
                    /\ subjects[i].id = id
                    /\ \A j \in 1..(i - 1) : subjects[j].id # id]
    ELSE NoSubject

(***************************************************************************)
(* The state.                                                              *)
(***************************************************************************)
VARIABLES
  hasClient,      \* OpenAIService.client is not null
  employeesFile,  \* data/employees.json
  teamsFile,      \* data/teams.json
  analysesFile,   \* data/analyses.json
  now,            \* the clock new Date() reads
  nextId,         \* the next uuid
  ioFaults,       \* file failures injected so far
  req,            \* the requests in flight: each handler's locals and position
  probe           \* one call of the adapter on its own (SpecAdapter, SpecInterp)

vars ==
  <<hasClient, employeesFile, teamsFile, analysesFile, now, nextId, ioFaults, req,
    probe>>

storeVars ==
  <<hasClient, employeesFile, teamsFile, analysesFile, now, nextId, ioFaults, req>>

NoResult == [thrown |-> FALSE, success |-> FALSE, data |-> NoData, source |-> "none"]
NoRecord ==
  [id |-> 0, type |-> "none", targetId |-> "none", analysis |-> NoData,
   metadata |-> [source |-> "none", success |-> FALSE, timestamp |-> 0]]
NoOutcome == [kind |-> "none", content |-> NoContent]

\* a handler that has not started
IdleRequest ==
  [pc |-> "idle", op |-> "none", kind |-> "none", id |-> "none", body |-> "",
   limit |-> 0, subject |-> NoSubject, outcome |-> NoOutcome, calls |-> 0,
   result |-> NoResult, record |-> NoRecord, analyses |-> <<>>, history |-> <<>>,
   status |-> 0, ids |-> <<>>, idx |-> 0, results |-> <<>>, comparisons |-> <<>>,
   errors |-> <<>>]

ProbeIdle ==
  [phase |-> "off", kind |-> "none", hasClient |-> FALSE, outcome |-> NoOutcome,
   fields |-> [k \in FieldNames |-> Undefined], result |-> NoResult, calls |-> 0]

(***************************************************************************)
(* Inputs of the requests.                                                 *)
(***************************************************************************)
Kinds == {"employee", "team"}
\* ids asked for: one that the defaults hold and one that nothing holds
SubjectIds == {"1", "missing"}
\* req.body.analysisType: absent, or given (analysisDepth is left absent)
BodyTypes == {"", "skills"}
\* parseInt(req.query.limit) || 10: a limit given, or the default
QueryLimits == {1, 10}

\* the object of the sample reply: a score above the range, a strengths
\* field that is no array, the other fields absent
SampleFields ==
  [k \in FieldNames |->
     CASE k = "overallScore" -> Num(150)
       [] k = "teamScore" -> Num(5)
       [] k = "strengths" -> Str(<<"x">>)
       [] k = "improvements" -> Arr(<<"x">>)
       [] OTHER -> Undefined]

\* what the provider may do with a call of a request
ProviderOutcomes ==
  {Reject, NoChoices, Reply(NoContent), Reply(Content(<<>>)),
   Reply(Content(<<"F", "{", "m", "}", "F">>))}

\* the metadata the employee analyze route passes to saveAnalysis
EmployeeRouteMetadata(body) ==
  [analysisType |-> IF body # "" THEN body ELSE "comprehensive",
   timeRange |-> "6months",
   requestId |-> "unknown"]

\* the metadata the team analyze route passes to saveAnalysis
TeamRouteMetadata(body, team) ==
  [analysisDepth |-> IF body # "" THEN body ELSE "standard",
   analysisPeriod |-> "3months",
   memberCount |-> team.memberCount,
   requestId |-> "unknown"]

RouteMetadata(kind, body, subject) ==
  IF kind = "employee" THEN EmployeeRouteMetadata(body)
  ELSE TeamRouteMetadata(body, subject)

\* openaiService.analyzeEmployee / analyzeTeam as the routes call them
Analyze(kind, client, subject, outcome, fields) ==
  IF kind = "employee" THEN AnalyzeEmployee(client, subject, outcome, fields)
  ELSE AnalyzeTeam(client, subject, outcome, fields)

SubjectFile(kind) == IF kind = "employee" THEN employeesFile ELSE teamsFile
Defaults(kind) == IF kind = "employee" THEN DefaultEmployees ELSE DefaultTeams

\* analyze requests that have not yet built their record
Unsaved ==
  {r \in Requests : req[r].op = "analyze"
                      /\ req[r].pc \in {"load", "load_defaults", "members", "provider"}}

Init ==
  /\ hasClient \in BOOLEAN
  /\ employeesFile = AbsentFile
  /\ teamsFile = AbsentFile
  /\ analysesFile = AbsentFile
  /\ now = 0
  /\ nextId = 1
  /\ ioFaults = 0
  /\ req = [r \in Requests |-> IdleRequest]
  /\ probe = ProbeIdle

\* whether the environment makes this file operation fail
FaultChoices == IF ioFaults < MaxFaults THEN BOOLEAN ELSE {FALSE}

(***************************************************************************)
(* The handlers.  A step is what a handler does between two awaits.        *)
(***************************************************************************)
\* saveAnalysis up to its first await: the record is built, the read is issued
\* (a result that was raised instead of returned goes to the route's catch)
BeginSave(r, kind, id, body, subject, outcome, calls, result) ==
  IF result.thrown
    THEN /\ req' = [req EXCEPT ![r] = [@ EXCEPT !.pc = "done", !.subject = subject,
                                                !.outcome = outcome, !.calls = calls,
                                                !.result = result, !.status = 500]]
         /\ UNCHANGED nextId
    ELSE /\ req' = [req EXCEPT ![r] =
                      [@ EXCEPT !.pc = "save_read", !.op = "analyze", !.kind = kind,
                                !.id = id, !.body = body, !.subject = subject,
                                !.outcome = outcome, !.calls = calls,
                                !.result = result,
                                !.record =
                                  AnalysisRecord(nextId, kind, id, result, now,
                                                 RouteMetadata(kind, body, subject))]]
         /\ nextId' = nextId + 1

\* analyzeEmployee / analyzeTeam up to the await of the provider call
IssueOrMock(r, subject) ==
  IF CallsProvider(hasClient)
    THEN /\ req' = [req EXCEPT ![r] = [@ EXCEPT !.pc = "provider", !.subject = subject,
                                                !.calls = 1]]
         /\ UNCHANGED nextId
    ELSE BeginSave(r, req[r].kind, req[r].id, req[r].body, subject, NoOutcome, 0,
                   Analyze(req[r].kind, FALSE, subject, NoOutcome, SampleFields))

\* a route once getEmployee / getTeam has returned or raised
Continue(r, subject) ==
  IF subject.id = "none"
    THEN /\ req' = [req EXCEPT ![r] = [@ EXCEPT !.pc = "done", !.status = 404]]
         /\ UNCHANGED nextId
  ELSE IF req[r].op \in {"history", "detail"}
    THEN /\ req' = [req EXCEPT ![r] = [@ EXCEPT !.pc = "hist_read", !.subject = subject]]
         /\ UNCHANGED nextId
  ELSE IF req[r].kind = "team"
    THEN /\ req' = [req EXCEPT ![r] = [@ EXCEPT !.pc = "members", !.subject = subject]]
         /\ UNCHANGED nextId
  ELSE IssueOrMock(r, subject)

\* a request arrives: POST /:id/analyze, GET /:id/history or GET /:id (whose
\* getLatestAnalysis asks the history for 1 record)
Start(r) ==
  /\ req[r].pc = "idle"
  /\ \E op \in {"analyze", "history", "detail"}, kind \in Kinds, id \in SubjectIds,
        body \in BodyTypes, limit \in QueryLimits :
       /\ op = "analyze" => nextId + Cardinality(Unsaved) <= MaxAnalyzed
       /\ op \in {"analyze", "detail"} => limit = 10
       /\ (op \in {"history", "detail"} \/ kind = "team") => body = ""
       /\ req' = [req EXCEPT ![r] = [IdleRequest EXCEPT !.pc = "load", !.op = op,
                                                        !.kind = kind, !.id = id,
                                                        !.body = body,
                                                        !.limit = IF op = "detail" THEN 1
                                                                  ELSE limit]]
  /\ UNCHANGED <<hasClient, employeesFile, teamsFile, analysesFile, now, nextId,
                 ioFaults, probe>>

\* getEmployee / getTeam: getAllEmployees reads the file
Load(r) ==
  /\ req[r].pc = "load"
  /\ \E fault \in FaultChoices :
       /\ ioFaults' = ioFaults + (IF fault THEN 1 ELSE 0)
       /\ IF ReadSucceeds(SubjectFile(req[r].kind), fault)
            THEN Continue(r, Find(SubjectFile(req[r].kind).data, req[r].id))
            ELSE /\ req' = [req EXCEPT ![r].pc = "load_defaults"]
                 /\ UNCHANGED nextId
  /\ UNCHANGED <<hasClient, employeesFile, teamsFile, analysesFile, now, probe>>

\* what a write leaves in a file: the new data, or on failure the old file
\* or a file cut short
WriteOutcomes(file, data, fault) ==
  IF fault THEN {file, CorruptFile} ELSE {FileWith(data)}

\* getAllEmployees / getAllTeams after a failed read: the defaults are saved
LoadDefaults(r) ==
  /\ req[r].pc = "load_defaults"
  /\ \E fault \in FaultChoices :
       /\ ioFaults' = ioFaults + (IF fault THEN 1 ELSE 0)
       /\ \E written \in WriteOutcomes(SubjectFile(req[r].kind),
                                       Defaults(req[r].kind), fault) :
            IF req[r].kind = "employee"
              THEN employeesFile' = written /\ UNCHANGED teamsFile
              ELSE teamsFile' = written /\ UNCHANGED employeesFile
       /\ IF fault
            THEN /\ req' = [req EXCEPT ![r] = [@ EXCEPT !.pc = "done", !.status = 500]]
                 /\ UNCHANGED nextId
            ELSE Continue(r, Find(Defaults(req[r].kind), req[r].id))
  /\ UNCHANGED <<hasClient, analysesFile, now, probe>>

\* the team route's loop over team.members: getEmployee(member.id), any
\* failure caught; a failed read makes getAllEmployees save the defaults
Members(r) ==
  /\ req[r].pc = "members"
  /\ \E fault \in FaultChoices :
       /\ ioFaults' = ioFaults + (IF fault THEN 1 ELSE 0)
       /\ IF ReadSucceeds(employeesFile, fault)
            THEN IssueOrMock(r, req[r].subject)
            ELSE /\ req' = [req EXCEPT ![r].pc = "members_defaults"]
                 /\ UNCHANGED nextId
  /\ UNCHANGED <<hasClient, employeesFile, teamsFile, analysesFile, now, probe>>

MembersDefaults(r) ==
  /\ req[r].pc = "members_defaults"
  /\ \E fault \in FaultChoices :
       /\ ioFaults' = ioFaults + (IF fault THEN 1 ELSE 0)
       /\ employeesFile' \in WriteOutcomes(employeesFile, DefaultEmployees, fault)
       /\ IssueOrMock(r, req[r].subject)
  /\ UNCHANGED <<hasClient, teamsFile, analysesFile, now, probe>>

\* the provider call settles; analyzeEmployee / analyzeTeam returns and
\* saveAnalysis starts
Provider(r) ==
  /\ req[r].pc = "provider"
  /\ \E outcome \in ProviderOutcomes :
       BeginSave(r, req[r].kind, req[r].id, req[r].body, req[r].subject, outcome,
                 req[r].calls,
                 Analyze(req[r].kind, TRUE, req[r].subject, outcome, SampleFields))
  /\ UNCHANGED <<hasClient, employeesFile, teamsFile, analysesFile, now, ioFaults,
                 probe>>

\* saveAnalysis: the read of analyses.json returns; push, cap, write issued
SaveRead(r) ==
  /\ req[r].pc = "save_read"
  /\ \E fault \in FaultChoices :
       /\ ioFaults' = ioFaults + (IF fault THEN 1 ELSE 0)
       /\ req' = [req EXCEPT ![r] =
                    [@ EXCEPT !.pc = "save_write",
                              !.analyses =
                                AnalysesToWrite(analysesFile, fault, req[r].record)]]
  /\ UNCHANGED <<hasClient, employeesFile, teamsFile, analysesFile, now, nextId, probe>>

\* saveAnalysis: the write returns; the route answers
SaveWrite(r) ==
  /\ req[r].pc = "save_write"
  /\ \E fault \in FaultChoices :
       /\ ioFaults' = ioFaults + (IF fault THEN 1 ELSE 0)
       /\ analysesFile' \in WriteOutcomes(analysesFile, req[r].analyses, fault)
       /\ req' = [req EXCEPT ![r] = [@ EXCEPT !.pc = "done",
                                              !.status = IF fault THEN 500 ELSE 200]]
  /\ UNCHANGED <<hasClient, employeesFile, teamsFile, now, nextId, probe>>

\* the history route: getAnalysisHistory reads, filters, sorts, cuts
HistRead(r) ==
  /\ req[r].pc = "hist_read"
  /\ \E fault \in FaultChoices :
       /\ ioFaults' = ioFaults + (IF fault THEN 1 ELSE 0)
       /\ req' = [req EXCEPT ![r] =
                    [@ EXCEPT !.pc = IF req[r].op = "detail" /\ req[r].kind = "team"
                                       THEN "detail_members" ELSE "done",
                              !.status = 200,
                              !.history =
                                GetAnalysisHistory(analysesFile, fault, req[r].kind,
                                                   req[r].id, req[r].limit)]]
  /\ UNCHANGED <<hasClient, employeesFile, teamsFile, analysesFile, now, nextId, probe>>

\* team GET /:id: the loop over team.members, getEmployee(member.id), any
\* failure caught; a failed read makes getAllEmployees save the defaults
DetailMembers(r) ==
  /\ req[r].pc = "detail_members"
  /\ \E fault \in FaultChoices :
       /\ ioFaults' = ioFaults + (IF fault THEN 1 ELSE 0)
       /\ req' = [req EXCEPT ![r].pc = IF ReadSucceeds(employeesFile, fault)
                                         THEN "done" ELSE "detail_defaults"]
  /\ UNCHANGED <<hasClient, employeesFile, teamsFile, analysesFile, now, nextId, probe>>

DetailMembersDefaults(r) ==
  /\ req[r].pc = "detail_defaults"
  /\ \E fault \in FaultChoices :
       /\ ioFaults' = ioFaults + (IF fault THEN 1 ELSE 0)
       /\ employeesFile' \in WriteOutcomes(employeesFile, DefaultEmployees, fault)
       /\ req' = [req EXCEPT ![r].pc = "done"]
  /\ UNCHANGED <<hasClient, teamsFile, analysesFile, now, nextId, probe>>

\* the response has been sent; the slot takes the next request
Finish(r) ==
  /\ req[r].pc = "done"
  /\ req' = [req EXCEPT ![r] = IdleRequest]
  /\ UNCHANGED <<hasClient, employeesFile, teamsFile, analysesFile, now, nextId,
                 ioFaults, probe>>

\* time passes
Tick ==
  /\ now < MaxClock
  /\ now' = now + 1
  /\ UNCHANGED <<hasClient, employeesFile, teamsFile, analysesFile, nextId, ioFaults,
                 req, probe>>

\* the single request the routes serve at a time
RouteRequests == {1}

Next ==
  \/ \E r \in RouteRequests : Start(r)
  \/ \E r \in RouteRequests : Load(r)
  \/ \E r \in RouteRequests : LoadDefaults(r)
  \/ \E r \in RouteRequests : Members(r)
  \/ \E r \in RouteRequests : MembersDefaults(r)
  \/ \E r \in RouteRequests : Provider(r)
  \/ \E r \in RouteRequests : SaveRead(r)
  \/ \E r \in RouteRequests : SaveWrite(r)
  \/ \E r \in RouteRequests : HistRead(r)
  \/ \E r \in RouteRequests : DetailMembers(r)
  \/ \E r \in RouteRequests : DetailMembersDefaults(r)
  \/ \E r \in RouteRequests : Finish(r)
  \/ Tick

\* the routes, one request after the other
Spec == Init /\ [][Next]_vars

(***************************************************************************)
(* The store under concurrent callers: the handlers from their call of     *)
(* saveAnalysis / getAnalysisHistory on, the subject already loaded and    *)
(* the analysis made (no credential configured: the mock).                 *)
(***************************************************************************)
\* a handler reaches dataService.saveAnalysis(type, targetId, result, metadata)
StartSave(r) ==
  /\ req[r].pc = "idle"
  /\ nextId <= MaxRecordsMade
  /\ \E kind \in Kinds :
       LET subject == Find(Defaults(kind), "1")
       IN  BeginSave(r, kind, "1", "", subject, NoOutcome, 0,
                     Analyze(kind, FALSE, subject, NoOutcome, SampleFields))
  /\ UNCHANGED <<hasClient, employeesFile, teamsFile, analysesFile, now, ioFaults,
                 probe>>

\* a handler reaches dataService.getAnalysisHistory(type, targetId, limit)
StartHistory(r) ==
  /\ req[r].pc = "idle"
  /\ \E kind \in Kinds, limit \in QueryLimits :
       req' = [req EXCEPT ![r] = [IdleRequest EXCEPT !.pc = "hist_read",
                                                     !.op = "history", !.kind = kind,
                                                     !.id = "1", !.limit = limit]]
  /\ UNCHANGED <<hasClient, employeesFile, teamsFile, analysesFile, now, nextId,
                 ioFaults, probe>>

InitStore ==
  /\ hasClient = FALSE
  /\ employeesFile = FileWith(DefaultEmployees)
  /\ teamsFile = FileWith(DefaultTeams)
  /\ analysesFile = AbsentFile
  /\ now = 0
  /\ nextId = 1
  /\ ioFaults = 0
  /\ req = [r \in Requests |-> IdleRequest]
  /\ probe = ProbeIdle

NextStore ==
  \/ \E r \in Requests : StartSave(r)
  \/ \E r \in Requests : StartHistory(r)
  \/ \E r \in Requests : SaveRead(r)
  \/ \E r \in Requests : SaveWrite(r)
  \/ \E r \in Requests : HistRead(r)
  \/ \E r \in Requests : Finish(r)
  \/ Tick

SpecStore == InitStore /\ [][NextStore]_vars

(***************************************************************************)
(* One call of the adapter, and one call of the interpreter, on their own. *)
(***************************************************************************)
\* the provider's object with its fields filled from two values
FieldsFrom(a, b) ==
  [k \in FieldNames |->
     IF k \in {"overallScore", "skillsScore", "teamScore", "communicationScore",
               "strengths", "suggestions", "developmentPlan", "careerPath"}
       THEN a ELSE b]

NoFields == [k \in FieldNames |-> Undefined]

\* replies whose text is decided: nothing, prose, an object in a fence, a
\* bare object, an empty object, a number, null
ReplyTexts ==
  {<<>>, <<"x">>, <<"F", "{", "m", "}", "F">>, <<"{", "m", "}">>, <<"{", "}">>, <<"5">>,
   <<"n">>}

HasMembers(text) == \E i \in 1..Len(text) : text[i] = "m"

\* the subject handed to the adapter
ProbeSubject(kind) == Find(Defaults(kind), "1")

ProbeInput(kind, client, outcome, fields) ==
  [phase |-> "input", kind |-> kind, hasClient |-> client, outcome |-> outcome,
   fields |-> fields, result |-> NoResult, calls |-> 0, span |-> <<>>]

StoreAtRest ==
  /\ hasClient = FALSE
  /\ employeesFile = FileWith(DefaultEmployees)
  /\ teamsFile = FileWith(DefaultTeams)
  /\ analysesFile = AbsentFile
  /\ now = 0
  /\ nextId = 1
  /\ ioFaults = 0
  /\ req = [r \in Requests |-> IdleRequest]

\* every way a call of analyzeEmployee / analyzeTeam can go
InitAdapter ==
  /\ StoreAtRest
  /\ \E kind \in Kinds :
       \/ probe = ProbeInput(kind, FALSE, NoOutcome, NoFields)
       \/ \E outcome \in {Reject, NoChoices, Reply(NoContent)} :
            probe = ProbeInput(kind, TRUE, outcome, NoFields)
       \/ \E text \in ReplyTexts, a \in RawVals, b \in RawVals :
            /\ ~HasMembers(text) => (a = Undefined /\ b = Undefined)
            /\ probe = ProbeInput(kind, TRUE, Reply(Content(text)), FieldsFrom(a, b))

\* analyzeEmployee / analyzeTeam is called and returns
ProbeAnalyze ==
  /\ probe.phase = "input"
  /\ probe' = [probe EXCEPT
                 !.phase = "output",
                 !.calls = IF CallsProvider(probe.hasClient) THEN 1 ELSE 0,
                 !.result = Analyze(probe.kind, CallsProvider(probe.hasClient),
                                    ProbeSubject(probe.kind), probe.outcome,
                                    probe.fields)]
  /\ UNCHANGED storeVars

SpecAdapter == InitAdapter /\ [][ProbeAnalyze]_vars

\* a reply of prose longer than the prefix the text path keeps
\* an object followed by more text with braces in it; a fenced object that
\* is followed by another fenced object
TrailingReplies ==
  {<<"{", "m", "}", "x", "{", "x", "}">>,
   <<"F", "{", "m", "}", "F", "x", "F", "{", "}", "F">>}

LongReply == [i \in 1..(DevelopmentPlanPrefix + 1) |-> "x"]

\* every reply up to MaxReplyLen tokens, a long one, and no content at all
ReplyContents ==
  {NoContent, Content(LongReply)}
    \cup {Content(text) : text \in SeqsUpTo(Tokens, MaxReplyLen)}
    \cup {Content(text) : text \in ReplyTexts \cup TrailingReplies}

InitInterp ==
  /\ StoreAtRest
  /\ \E kind \in Kinds, content \in ReplyContents, fields \in {NoFields, SampleFields} :
       probe = ProbeInput(kind, TRUE, Reply(content), fields)

\* parseEmployeeAnalysis / parseTeamAnalysis is called with message.content
ProbeParse ==
  /\ probe.phase = "input"
  /\ probe' = [probe EXCEPT
                 !.phase = "output",
                 !.span = IF probe.outcome.content.present
                            THEN ExtractJSON(probe.outcome.content.text)
                            ELSE <<>>,
                 !.result = IF probe.kind = "employee"
                              THEN ParseEmployeeAnalysis(probe.outcome.content,
                                                         probe.fields)
                              ELSE ParseTeamAnalysis(probe.outcome.content,
                                                     probe.fields)]
  /\ UNCHANGED storeVars

SpecInterp == InitInterp /\ [][ProbeParse]_vars

(***************************************************************************)
(* The read operations of the record store on their own: one call of the   *)
(* history route, of getLatestAnalysis or of getAnalysisStats on a stored   *)
(* log.                                                                    *)
(***************************************************************************)
\* the kind and id of the records a log may hold
StoredSubjects == {<<"employee", "1">>, <<"employee", "2">>, <<"team", "1">>}

\* how the analysis of a stored record was made: the mock, the text path, a
\* strict parse
StoredReplies == {NoOutcome, Reply(Content(<<>>)), Reply(Content(<<"{", "}">>))}

\* the records saveAnalysis may have built with id i
RecordsAt(i) ==
  {LET subject == Find(Defaults(sub[1]), sub[2])
   IN  AnalysisRecord(i, sub[1], sub[2],
                      Analyze(sub[1], outcome # NoOutcome, subject, outcome, NoFields),
                      t, RouteMetadata(sub[1], "", subject)) :
     sub \in StoredSubjects, outcome \in StoredReplies, t \in 0..MaxClock}

\* the logs of n records
RECURSIVE LogsOfLen(_)
LogsOfLen(n) ==
  IF n = 0 THEN {<<>>}
  ELSE {Append(log, record) : log \in LogsOfLen(n - 1), record \in RecordsAt(n)}

\* what analyses.json may be: absent, cut short, or a log within the cap
StoredFiles ==
  {AbsentFile, CorruptFile}
    \cup {FileWith(log) : log \in UNION {LogsOfLen(n) : n \in 0..MaxAnalyses}}

\* req.query.limit of a history request
RawLimits == {NoLimit} \cup {LimitGiven(n) : n \in {-1, 0, 1, 2}}

ReadInput(op, kind, id, query, fault) ==
  [phase |-> "input", op |-> op, kind |-> kind, id |-> id, query |-> query,
   fault |-> fault, limit |-> 0, history |-> <<>>, latest |-> NoRecord,
   stats |-> ZeroStats]

InitReads ==
  /\ hasClient = FALSE
  /\ employeesFile = FileWith(DefaultEmployees)
  /\ teamsFile = FileWith(DefaultTeams)
  /\ analysesFile \in StoredFiles
  /\ now = MaxClock
  /\ nextId = Len(analysesFile.data) + 1
  /\ ioFaults = 0
  /\ req = [r \in Requests |-> IdleRequest]
  /\ \E fault \in BOOLEAN :
       \/ \E sub \in StoredSubjects, query \in RawLimits :
            probe = ReadInput("history", sub[1], sub[2], query, fault)
       \/ \E sub \in StoredSubjects :
            probe = ReadInput("latest", sub[1], sub[2], NoLimit, fault)
       \/ probe = ReadInput("stats", "none", "none", NoLimit, fault)

\* GET /:id/history once the subject is found: the limit is taken from the
\* query and getAnalysisHistory is called
ReadHistory ==
  /\ probe.phase = "input"
  /\ probe.op = "history"
  /\ probe' = [probe EXCEPT
                 !.phase = "output",
                 !.limit = RouteLimit(probe.query),
                 !.history = GetAnalysisHistory(analysesFile, probe.fault, probe.kind,
                                                probe.id, RouteLimit(probe.query))]
  /\ UNCHANGED storeVars

\* getLatestAnalysis(type, targetId)
ReadLatest ==
  /\ probe.phase = "input"
  /\ probe.op = "latest"
  /\ probe' = [probe EXCEPT
                 !.phase = "output",
                 !.latest = GetLatestAnalysis(analysesFile, probe.fault, probe.kind,
                                              probe.id)]
  /\ UNCHANGED storeVars

\* getAnalysisStats()
ReadStats ==
  /\ probe.phase = "input"
  /\ probe.op = "stats"
  /\ probe' = [probe EXCEPT
                 !.phase = "output",
                 !.stats = GetAnalysisStats(analysesFile, probe.fault, now)]
  /\ UNCHANGED storeVars

NextReads == ReadHistory \/ ReadLatest \/ ReadStats

SpecReads == InitReads /\ [][NextReads]_vars

(***************************************************************************)
(* Batch analyze (routes/employees.js) and compare (routes/health.js): one *)
(* request that loops over a list of ids.                                  *)
(***************************************************************************)
\* longest list of ids in one request
MaxBatch == 2

\* req.body.employeeIds
BatchIdLists == SeqsUpTo({"1", "2", "missing"}, MaxBatch)
\* req.body.teamIds
CompareIdLists == SeqsUpTo({"1", "missing"}, MaxBatch)

\* the metadata batch analyze passes to saveAnalysis
BatchMetadata ==
  [batchAnalysis |-> TRUE, analysisType |-> "comprehensive", timeRange |-> "6months"]

\* the id the loop is at
CurrentId(q) == q.ids[q.idx]

\* the end of one pass of the for loop: the next id, or the response
NextPass(q, first) ==
  IF q.idx < Len(q.ids)
    THEN [q EXCEPT !.pc = first, !.idx = q.idx + 1]
    ELSE [q EXCEPT !.pc = "done", !.status = 200]

\* a batch loop whose first failure ends the request
BatchFailAborts(q, message) ==
  [q EXCEPT !.pc = "done", !.status = 500,
            !.errors = Append(q.errors, [employeeId |-> CurrentId(q), error |-> message])]

\* the catch inside the batch loop: errors.push({employeeId, error})
BatchFail(q, message) ==
  NextPass([q EXCEPT !.errors =
                       Append(q.errors, [employeeId |-> CurrentId(q), error |-> message])],
           "b_load")

\* an analyzeEmployee that calls the provider again after a call that failed
BatchSaveRetries(q, employee, outcome, result) ==
  IF outcome.kind \in {"reject", "nochoices"} /\ q.calls <= q.idx
    THEN [q EXCEPT !.pc = "b_provider", !.calls = q.calls + 1]
  ELSE IF result.thrown THEN BatchFail(q, "analysis failed")
  ELSE [q EXCEPT !.pc = "b_save_read", !.subject = employee, !.outcome = outcome,
                 !.result = result,
                 !.record = AnalysisRecord(nextId, "employee", CurrentId(q), result, now,
                                           BatchMetadata)]

\* analyzeEmployee has returned (or raised): saveAnalysis builds its record
BatchSave(q, employee, outcome, result) ==
  IF result.thrown THEN BatchFail(q, "analysis failed")
  ELSE [q EXCEPT !.pc = "b_save_read", !.subject = employee, !.outcome = outcome,
                 !.result = result,
                 !.record = AnalysisRecord(nextId, "employee", CurrentId(q), result, now,
                                           BatchMetadata)]

\* getEmployee has returned the list: find, then analyzeEmployee up to the
\* await of the provider call
BatchFound(q, employees) ==
  LET employee == Find(employees, CurrentId(q))
  IN  IF employee.id = "none" THEN BatchFail(q, "not found")
      ELSE IF CallsProvider(hasClient)
        THEN [q EXCEPT !.pc = "b_provider", !.subject = employee, !.calls = q.calls + 1]
      ELSE BatchSave(q, employee, NoOutcome,
                     AnalyzeEmployee(FALSE, employee, NoOutcome, SampleFields))

\* uuidv4() was drawn in this step
IdDrawn(r) == req'[r].pc = "b_save_read" /\ req[r].pc # "b_save_read"

\* POST /batch-analyze arrives
BatchStart(r) ==
  /\ req[r].pc = "idle"
  /\ \E ids \in BatchIdLists :
       /\ nextId + Len(ids) - 1 <= MaxRecordsMade
       /\ req' = [req EXCEPT ![r] =
                    IF Len(ids) = 0
                      THEN [IdleRequest EXCEPT !.pc = "done", !.op = "batch",
                                               !.kind = "employee", !.status = 400]
                      ELSE [IdleRequest EXCEPT !.pc = "b_load", !.op = "batch",
                                               !.kind = "employee", !.ids = ids,
                                               !.idx = 1]]
  /\ UNCHANGED <<hasClient, employeesFile, teamsFile, analysesFile, now, nextId,
                 ioFaults, probe>>

\* getEmployee(employeeId): getAllEmployees reads the file
BatchLoad(r) ==
  /\ req[r].pc = "b_load"
  /\ \E fault \in FaultChoices :
       /\ ioFaults' = ioFaults + (IF fault THEN 1 ELSE 0)
       /\ req' = [req EXCEPT ![r] =
                    IF ReadSucceeds(employeesFile, fault)
                      THEN BatchFound(req[r], employeesFile.data)
                      ELSE [req[r] EXCEPT !.pc = "b_defaults"]]
  /\ nextId' = IF IdDrawn(r) THEN nextId + 1 ELSE nextId
  /\ UNCHANGED <<hasClient, employeesFile, teamsFile, analysesFile, now, probe>>

\* getAllEmployees after a failed read: the defaults are saved and returned
BatchLoadDefaults(r) ==
  /\ req[r].pc = "b_defaults"
  /\ \E fault \in FaultChoices :
       /\ ioFaults' = ioFaults + (IF fault THEN 1 ELSE 0)
       /\ employeesFile' \in WriteOutcomes(employeesFile, DefaultEmployees, fault)
       /\ req' = [req EXCEPT ![r] =
                    IF fault THEN BatchFail(req[r], "write failed")
                    ELSE BatchFound(req[r], DefaultEmployees)]
  /\ nextId' = IF IdDrawn(r) THEN nextId + 1 ELSE nextId
  /\ UNCHANGED <<hasClient, teamsFile, analysesFile, now, probe>>

\* the provider call of this id settles
BatchProvider(r) ==
  /\ req[r].pc = "b_provider"
  /\ \E outcome \in ProviderOutcomes :
       req' = [req EXCEPT ![r] =
                 BatchSave(req[r], req[r].subject, outcome,
                           AnalyzeEmployee(TRUE, req[r].subject, outcome, SampleFields))]
  /\ nextId' = IF IdDrawn(r) THEN nextId + 1 ELSE nextId
  /\ UNCHANGED <<hasClient, employeesFile, teamsFile, analysesFile, now, ioFaults,
                 probe>>

\* saveAnalysis inside the loop: the read returns
BatchSaveRead(r) ==
  /\ req[r].pc = "b_save_read"
  /\ \E fault \in FaultChoices :
       /\ ioFaults' = ioFaults + (IF fault THEN 1 ELSE 0)
       /\ req' = [req EXCEPT ![r] =
                    [req[r] EXCEPT !.pc = "b_save_write",
                                   !.analyses =
                                     AnalysesToWrite(analysesFile, fault, req[r].record)]]
  /\ UNCHANGED <<hasClient, employeesFile, teamsFile, analysesFile, now, nextId, probe>>

\* saveAnalysis inside the loop: the write returns; results.push or the catch
BatchSaveWrite(r) ==
  /\ req[r].pc = "b_save_write"
  /\ \E fault \in FaultChoices :
       /\ ioFaults' = ioFaults + (IF fault THEN 1 ELSE 0)
       /\ analysesFile' \in WriteOutcomes(analysesFile, req[r].analyses, fault)
       /\ req' = [req EXCEPT ![r] =
                    IF fault THEN BatchFail(req[r], "write failed")
                    ELSE NextPass([req[r] EXCEPT !.results =
                                     Append(req[r].results,
                                            [employeeId |-> CurrentId(req[r]),
                                             employee |-> req[r].subject.name,
                                             success |-> TRUE,
                                             analysis |-> req[r].result.data,
                                             source |-> req[r].result.source])],
                                  "b_load")]
  /\ UNCHANGED <<hasClient, employeesFile, teamsFile, now, nextId, probe>>

\* the catch inside the compare loop: errors.push({teamId, error})
CompareFail(q, message) ==
  NextPass([q EXCEPT !.errors =
                       Append(q.errors, [teamId |-> CurrentId(q), error |-> message])],
           "c_load")

\* a compare that starts an analysis of each team it finds
CompareFoundAnalyzes(q, teams) ==
  LET team == Find(teams, CurrentId(q))
  IN  IF team.id = "none" THEN CompareFail(q, "not found")
      ELSE [q EXCEPT !.pc = "c_latest", !.subject = team, !.calls = q.calls + 1]

\* getTeam has the list: find, then getLatestAnalysis is called
CompareFound(q, teams) ==
  LET team == Find(teams, CurrentId(q))
  IN  IF team.id = "none" THEN CompareFail(q, "not found")
      ELSE [q EXCEPT !.pc = "c_latest", !.subject = team]

\* POST /compare arrives
CompareStart(r) ==
  /\ req[r].pc = "idle"
  /\ \E ids \in CompareIdLists :
       req' = [req EXCEPT ![r] =
                 IF Len(ids) < 2
                   THEN [IdleRequest EXCEPT !.pc = "done", !.op = "compare",
                                            !.kind = "team", !.ids = ids, !.status = 400]
                   ELSE [IdleRequest EXCEPT !.pc = "c_load", !.op = "compare",
                                            !.kind = "team", !.ids = ids, !.idx = 1]]
  /\ UNCHANGED <<hasClient, employeesFile, teamsFile, analysesFile, now, nextId,
                 ioFaults, probe>>

\* getTeam(teamId): getAllTeams reads the file
CompareLoad(r) ==
  /\ req[r].pc = "c_load"
  /\ \E fault \in FaultChoices :
       /\ ioFaults' = ioFaults + (IF fault THEN 1 ELSE 0)
       /\ req' = [req EXCEPT ![r] =
                    IF ReadSucceeds(teamsFile, fault)
                      THEN CompareFound(req[r], teamsFile.data)
                      ELSE [req[r] EXCEPT !.pc = "c_defaults"]]
  /\ UNCHANGED <<hasClient, employeesFile, teamsFile, analysesFile, now, nextId, probe>>

\* getAllTeams after a failed read: the defaults are saved and returned
CompareLoadDefaults(r) ==
  /\ req[r].pc = "c_defaults"
  /\ \E fault \in FaultChoices :
       /\ ioFaults' = ioFaults + (IF fault THEN 1 ELSE 0)
       /\ teamsFile' \in WriteOutcomes(teamsFile, DefaultTeams, fault)
       /\ req' = [req EXCEPT ![r] =
                    IF fault THEN CompareFail(req[r], "write failed")
                    ELSE CompareFound(req[r], DefaultTeams)]
  /\ UNCHANGED <<hasClient, employeesFile, analysesFile, now, nextId, probe>>

\* getLatestAnalysis('team', teamId) returns: comparisons.push
CompareLatest(r) ==
  /\ req[r].pc = "c_latest"
  /\ \E fault \in FaultChoices :
       /\ ioFaults' = ioFaults + (IF fault THEN 1 ELSE 0)
       /\ LET latestAnalysis ==
                GetLatestAnalysis(analysesFile, fault, "team", CurrentId(req[r]))
               found == latestAnalysis.type # "none"
           IN  req' = [req EXCEPT ![r] =
                         NextPass([req[r] EXCEPT !.comparisons =
                                     Append(req[r].comparisons,
                                            [teamId |-> CurrentId(req[r]),
                                             teamName |-> req[r].subject.name,
                                             memberCount |-> req[r].subject.memberCount,
                                             analysis |->
                                               IF found THEN latestAnalysis.analysis
                                               ELSE NoData,
                                             analyzedAt |->
                                               IF found
                                                 THEN Num(latestAnalysis.metadata.timestamp)
                                                 ELSE Null])],
                                  "c_load")]
  /\ UNCHANGED <<hasClient, employeesFile, teamsFile, analysesFile, now, nextId, probe>>

\* the records of team 1 that saveAnalysis may have built with id i
TeamRecordsAt(i) == {a \in RecordsAt(i) : a.type = "team"}

RECURSIVE TeamLogsOfLen(_)
TeamLogsOfLen(n) ==
  IF n = 0 THEN {<<>>}
  ELSE {Append(log, record) : log \in TeamLogsOfLen(n - 1), record \in TeamRecordsAt(n)}

InitBatch ==
  /\ hasClient \in BOOLEAN
  /\ employeesFile = AbsentFile
  /\ teamsFile = AbsentFile
  /\ analysesFile = AbsentFile
  /\ now = 0
  /\ nextId = 1
  /\ ioFaults = 0
  /\ req = [r \in Requests |-> IdleRequest]
  /\ probe = ProbeIdle

NextBatch ==
  \/ \E r \in RouteRequests : BatchStart(r)
  \/ \E r \in RouteRequests : BatchLoad(r)
  \/ \E r \in RouteRequests : BatchLoadDefaults(r)
  \/ \E r \in RouteRequests : BatchProvider(r)
  \/ \E r \in RouteRequests : BatchSaveRead(r)
  \/ \E r \in RouteRequests : BatchSaveWrite(r)
  \/ \E r \in RouteRequests : Finish(r)

\* batch analyze requests, one after the other
SpecBatch == InitBatch /\ [][NextBatch]_vars

InitCompare ==
  /\ hasClient \in BOOLEAN
  /\ employeesFile = AbsentFile
  /\ teamsFile \in {AbsentFile, FileWith(DefaultTeams)}
  /\ analysesFile \in {AbsentFile}
                        \cup {FileWith(log) :
                                log \in UNION {TeamLogsOfLen(n) : n \in 1..MaxAnalyses}}
  /\ now = MaxClock
  /\ nextId = Len(analysesFile.data) + 1
  /\ ioFaults = 0
  /\ req = [r \in Requests |-> IdleRequest]
  /\ probe = ProbeIdle

NextCompare ==
  \/ \E r \in RouteRequests : CompareStart(r)
  \/ \E r \in RouteRequests : CompareLoad(r)
  \/ \E r \in RouteRequests : CompareLoadDefaults(r)
  \/ \E r \in RouteRequests : CompareLatest(r)
  \/ \E r \in RouteRequests : Finish(r)

\* compare requests, one after the other, over the logs of team records
SpecCompare == InitCompare /\ [][NextCompare]_vars

(***************************************************************************)
(* The subject store under create and update: addEmployee, updateEmployee  *)
(* and getEmployee, one call after the other.                              *)
(***************************************************************************)
\* most employees created in one run
MaxAdded == 2

\* the ids uuidv4() gives to new employees
NewIdNames == <<"a", "b", "c", "d">>

\* the ids of employees created so far, and the ids a request may name
AddedIds == {NewIdNames[i] : i \in 1..(nextId - 1)}
EmployeeIds == SubjectIds \cup AddedIds

\* addEmployee: { id: uuidv4(), ...employeeData }
NewEmployee(id) == [id |-> id, name |-> "new", position |-> "engineer"]

\* updateEmployee: { ...employees[index], ...updates }
Updated(employees, id) ==
  [i \in 1..Len(employees) |->
     IF i = CHOOSE k \in 1..Len(employees) :
              /\ employees[k].id = id
              /\ \A j \in 1..(k - 1) : employees[j].id # id
       THEN [employees[i] EXCEPT !.position = "lead"]
       ELSE employees[i]]

\* addEmployee / updateEmployee once getAllEmployees has returned the list
Merge(q, employees) ==
  IF q.op = "add"
    THEN [q EXCEPT !.pc = "add_write",
                   !.subject = NewEmployee(NewIdNames[nextId]),
                   !.analyses = Append(employees, NewEmployee(NewIdNames[nextId]))]
  ELSE IF Find(employees, q.id).id = "none"
    THEN [q EXCEPT !.pc = "done", !.status = 404]
  ELSE [q EXCEPT !.pc = "add_write",
                 !.subject = Find(Updated(employees, q.id), q.id),
                 !.analyses = Updated(employees, q.id)]

\* POST / arrives: the required fields are checked
AddStart(r) ==
  /\ req[r].pc = "idle"
  /\ nextId <= MaxAdded
  /\ \E valid \in BOOLEAN :
       req' = [req EXCEPT ![r] =
                 IF valid
                   THEN [IdleRequest EXCEPT !.pc = "add_read", !.op = "add",
                                            !.kind = "employee"]
                   ELSE [IdleRequest EXCEPT !.pc = "done", !.op = "add",
                                            !.kind = "employee", !.status = 400]]
  /\ UNCHANGED <<hasClient, employeesFile, teamsFile, analysesFile, now, nextId,
                 ioFaults, probe>>

\* PUT /:id arrives
UpdateStart(r) ==
  /\ req[r].pc = "idle"
  /\ \E id \in EmployeeIds :
       req' = [req EXCEPT ![r] =
                 [IdleRequest EXCEPT !.pc = "add_read", !.op = "update",
                                     !.kind = "employee", !.id = id]]
  /\ UNCHANGED <<hasClient, employeesFile, teamsFile, analysesFile, now, nextId,
                 ioFaults, probe>>

\* GET /:id arrives for an id of the store, of a created employee, or unknown
GetStart(r) ==
  /\ req[r].pc = "idle"
  /\ \E id \in EmployeeIds :
       req' = [req EXCEPT ![r] =
                 [IdleRequest EXCEPT !.pc = "load", !.op = "detail",
                                     !.kind = "employee", !.id = id, !.limit = 1]]
  /\ UNCHANGED <<hasClient, employeesFile, teamsFile, analysesFile, now, nextId,
                 ioFaults, probe>>

\* getAllEmployees inside addEmployee / updateEmployee: the read returns
AddRead(r) ==
  /\ req[r].pc = "add_read"
  /\ \E fault \in FaultChoices :
       /\ ioFaults' = ioFaults + (IF fault THEN 1 ELSE 0)
       /\ req' = [req EXCEPT ![r] =
                    IF ReadSucceeds(employeesFile, fault)
                      THEN Merge(req[r], employeesFile.data)
                      ELSE [req[r] EXCEPT !.pc = "add_defaults"]]
  /\ nextId' = IF req'[r].pc = "add_write" /\ req[r].op = "add" THEN nextId + 1
               ELSE nextId
  /\ UNCHANGED <<hasClient, employeesFile, teamsFile, analysesFile, now, probe>>

\* getAllEmployees after a failed read: the defaults are saved and returned
AddDefaults(r) ==
  /\ req[r].pc = "add_defaults"
  /\ \E fault \in FaultChoices :
       /\ ioFaults' = ioFaults + (IF fault THEN 1 ELSE 0)
       /\ employeesFile' \in WriteOutcomes(employeesFile, DefaultEmployees, fault)
       /\ req' = [req EXCEPT ![r] =
                    IF fault THEN [req[r] EXCEPT !.pc = "done", !.status = 500]
                    ELSE Merge(req[r], DefaultEmployees)]
  /\ nextId' = IF req'[r].pc = "add_write" /\ req[r].op = "add" THEN nextId + 1
               ELSE nextId
  /\ UNCHANGED <<hasClient, teamsFile, analysesFile, now, probe>>

\* saveEmployees(employees) returns; the route answers
AddWrite(r) ==
  /\ req[r].pc = "add_write"
  /\ \E fault \in FaultChoices :
       /\ ioFaults' = ioFaults + (IF fault THEN 1 ELSE 0)
       /\ employeesFile' \in WriteOutcomes(employeesFile, req[r].analyses, fault)
       /\ req' = [req EXCEPT ![r] =
                    [req[r] EXCEPT !.pc = "done",
                                   !.status = IF fault THEN 500
                                              ELSE IF req[r].op = "add" THEN 201
                                              ELSE 200]]
  /\ UNCHANGED <<hasClient, teamsFile, analysesFile, now, nextId, probe>>

NextSubjects ==
  \/ \E r \in RouteRequests : AddStart(r)
  \/ \E r \in RouteRequests : UpdateStart(r)
  \/ \E r \in RouteRequests : GetStart(r)
  \/ \E r \in RouteRequests : AddRead(r)
  \/ \E r \in RouteRequests : AddDefaults(r)
  \/ \E r \in RouteRequests : AddWrite(r)
  \/ \E r \in RouteRequests : Load(r)
  \/ \E r \in RouteRequests : LoadDefaults(r)
  \/ \E r \in RouteRequests : HistRead(r)
  \/ \E r \in RouteRequests : Finish(r)

\* create, update and detail requests on the employee store
SpecSubjects == Init /\ [][NextSubjects]_vars

(***************************************************************************)
(* The prompt compiler: buildEmployeePrompt and buildTeamPrompt.  A prompt *)
(* is kept as the text each ${...} slot of the template renders; the fixed *)
(* text between the slots is the same for every subject.                   *)
(***************************************************************************)
\* `${v}` in a template literal
ToText(v) ==
  CASE v.t = "undef" -> <<"undefined">>
    [] v.t = "null" -> <<"null">>
    [] v.t = "str" -> v.s
    [] v.t = "num" -> <<"number">>
    [] OTHER -> JoinComma(v.s)

\* a || b, for values
Or(a, b) == IF Truthy(a) THEN a ELSE b

\* the fields the employee template reads
EmployeePromptFields ==
  {"name", "position", "department", "experience", "joinDate", "skills",
   "specialization", "recentPerformance", "feedback", "projectContribution",
   "analysisType", "timeRange"}

\* the fields the team template reads, and those it reads of a member
TeamPromptFields ==
  {"name", "department", "memberCount", "members", "teamType", "leader",
   "teamExperience", "collaborationMode", "communicationFrequency", "decisionMaking",
   "recentProjects", "teamPerformance", "collaborationEfficiency", "analysisDepth",
   "analysisPeriod"}
MemberPromptFields == {"name", "role", "position"}

\* buildEmployeePrompt: the text of each slot
BuildEmployeePrompt(employee) ==
  [name |-> ToText(employee.name),
   position |-> ToText(employee.position),
   department |-> ToText(employee.department),
   experience |-> ToText(OrDefault(employee.experience, "not provided")),
   joinDate |-> ToText(OrDefault(employee.joinDate, "not provided")),
   skills |-> IF employee.skills.t = "arr" THEN JoinComma(employee.skills.s)
              ELSE <<"not provided">>,
   specialization |-> ToText(Or(employee.specialization, employee.position)),
   recentPerformance |-> ToText(OrDefault(employee.recentPerformance, "steady")),
   feedback |-> ToText(OrDefault(employee.feedback, "cooperative")),
   projectContribution |-> ToText(OrDefault(employee.projectContribution, "on time")),
   analysisType |-> ToText(OrDefault(employee.analysisType, "comprehensive")),
   timeRange |-> ToText(OrDefault(employee.timeRange, "6 months"))]

\* `${m.name} (${m.role || m.position})`
MemberText(m) == ToText(m.name) \o <<"(">> \o ToText(Or(m.role, m.position)) \o <<")">>

\* team.members.map(...).join(', ')
RECURSIVE MembersText(_)
MembersText(members) ==
  IF Len(members) = 0 THEN <<>>
  ELSE IF Len(members) = 1 THEN MemberText(members[1])
  ELSE MemberText(members[1]) \o <<",">> \o MembersText(Tail(members))

\* team.members?.length
MembersLength(members) == IF members.t = "arr" THEN Num(Len(members.s)) ELSE Undefined

\* buildTeamPrompt: the text of each slot
BuildTeamPrompt(team) ==
  [name |-> ToText(team.name),
   department |-> ToText(OrDefault(team.department, "not provided")),
   memberCount |-> ToText(Or(team.memberCount,
                             OrDefault(MembersLength(team.members), "unknown"))),
   teamType |-> ToText(OrDefault(team.teamType, "project team")),
   members |-> IF team.members.t = "arr" THEN MembersText(team.members.s)
               ELSE <<"members not provided">>,
   leader |-> ToText(OrDefault(team.leader, "not named")),
   teamExperience |-> ToText(OrDefault(team.teamExperience, "2-3 years")),
   collaborationMode |-> ToText(OrDefault(team.collaborationMode, "hybrid")),
   communicationFrequency |-> ToText(OrDefault(team.communicationFrequency, "daily")),
   decisionMaking |-> ToText(OrDefault(team.decisionMaking, "consensus")),
   recentProjects |-> ToText(OrDefault(team.recentProjects, "several")),
   teamPerformance |-> ToText(OrDefault(team.teamPerformance, "good")),
   collaborationEfficiency |-> ToText(OrDefault(team.collaborationEfficiency, "high")),
   analysisDepth |-> ToText(OrDefault(team.analysisDepth, "standard")),
   analysisPeriod |-> ToText(OrDefault(team.analysisPeriod, "3 months"))]

\* a field that is given: a one-character string, or for skills a list of one
GivenField(name) == IF name = "skills" THEN Arr(<<"x">>) ELSE Str(<<"x">>)

\* a subject with the fields of missing left out
SubjectMissing(fields, missing) ==
  [name \in fields |-> IF name \in missing THEN Undefined ELSE GivenField(name)]

\* the employees the compiler may be given
PromptEmployees ==
  {SubjectMissing(EmployeePromptFields, missing) : missing \in SUBSET EmployeePromptFields}

\* team.members when given: no member, or one member with some fields missing
PromptMembers ==
  {Arr(<<>>)}
    \cup {Arr(<<SubjectMissing(MemberPromptFields, missing)>>) :
            missing \in SUBSET MemberPromptFields}

\* the teams the compiler may be given
PromptTeams ==
  {[SubjectMissing(TeamPromptFields, missing) EXCEPT
      !.members = IF "members" \in missing THEN Undefined ELSE members,
      !.memberCount = IF "memberCount" \in missing THEN Undefined ELSE Num(ScoreScale)] :
     missing \in SUBSET TeamPromptFields, members \in PromptMembers}

PromptInput(kind, subject) ==
  [phase |-> "input", kind |-> kind, subject |-> subject, prompt |-> <<>>]

InitPrompt ==
  /\ hasClient = TRUE
  /\ employeesFile = AbsentFile
  /\ teamsFile = AbsentFile
  /\ analysesFile = AbsentFile
  /\ now = 0
  /\ nextId = 1
  /\ ioFaults = 0
  /\ req = [r \in Requests |-> IdleRequest]
  /\ probe \in {PromptInput("employee", e) : e \in PromptEmployees}
                 \cup {PromptInput("team", t) : t \in PromptTeams}

\* analyzeEmployee / analyzeTeam compile the user prompt
ProbePrompt ==
  /\ probe.phase = "input"
  /\ probe' = [probe EXCEPT
                 !.phase = "output",
                 !.prompt = IF probe.kind = "employee"
                              THEN BuildEmployeePrompt(probe.subject)
                              ELSE BuildTeamPrompt(probe.subject)]
  /\ UNCHANGED storeVars

\* the prompt compiler on every subject
SpecPrompt == InitPrompt /\ [][ProbePrompt]_vars

(***************************************************************************)
(* The frontend composables useCognitiveLoad and useProgressiveDisclosure  *)
(* (composables/useCognitive.ts).  probe holds one object a composable     *)
(* returned: the reactive state its functions close over, the properties   *)
(* the returned object got from `...state` and from the calls evaluated in *)
(* the return statement, and the last call made on it.                     *)
(***************************************************************************)
\* COGNITIVE_CONSTANTS.MAX_VISIBLE_ITEMS
MaxVisibleItems == 7

\* most calls made on one returned object
MaxCalls == 5
\* longest list of steps
MaxSteps == 3

\* the amounts addLoad and removeLoad are called with (1 is the default)
Amounts == {1, 2, 3, MaxVisibleItems}

\* updatePercentage: (currentLoad / maxLoad) * 100, kept in tenths of a
\* percent, rounded down
UpdatePercentage(state) ==
  [state EXCEPT !.loadPercentage = (state.currentLoad * 100 * ScoreScale) \div state.maxLoad]

\* addLoad(amount)
AddLoad(state, amount) ==
  UpdatePercentage([state EXCEPT
                      !.currentLoad = Min(state.currentLoad + amount, state.maxLoad)])

\* removeLoad(amount)
RemoveLoad(state, amount) ==
  UpdatePercentage([state EXCEPT !.currentLoad = Max(state.currentLoad - amount, 0)])

\* resetLoad()
ResetLoad(state) == UpdatePercentage([state EXCEPT !.currentLoad = 0])

\* isOverloaded()
IsOverloaded(state) == state.currentLoad >= state.maxLoad

\* the reactive state useCognitiveLoad starts with
LoadState == [currentLoad |-> 0, maxLoad |-> MaxVisibleItems, loadPercentage |-> 0]

\* return { ...state, addLoad, removeLoad, resetLoad, isOverloaded: isOverloaded() }:
\* the spread copies the values the state has at the return, and
\* isOverloaded() is called once, there
UseCognitiveLoad ==
  [hook |-> "load", state |-> LoadState,
   returned |-> [currentLoad |-> LoadState.currentLoad,
                 maxLoad |-> LoadState.maxLoad,
                 loadPercentage |-> LoadState.loadPercentage,
                 isOverloaded |-> IsOverloaded(LoadState)],
   calls |-> 0, last |-> [op |-> "none", arg |-> 0]]

\* the record of a call made on the returned object
Called(object, state, op, arg) ==
  [object EXCEPT !.state = state, !.calls = object.calls + 1,
                 !.last = [op |-> op, arg |-> arg]]

InitLoad ==
  /\ hasClient = FALSE
  /\ employeesFile = AbsentFile
  /\ teamsFile = AbsentFile
  /\ analysesFile = AbsentFile
  /\ now = 0
  /\ nextId = 1
  /\ ioFaults = 0
  /\ req = [r \in Requests |-> IdleRequest]
  /\ probe = UseCognitiveLoad

CallAddLoad ==
  /\ probe.hook = "load"
  /\ probe.calls < MaxCalls
  /\ \E amount \in Amounts :
       probe' = Called(probe, AddLoad(probe.state, amount), "addLoad", amount)
  /\ UNCHANGED storeVars

CallRemoveLoad ==
  /\ probe.hook = "load"
  /\ probe.calls < MaxCalls
  /\ \E amount \in Amounts :
       probe' = Called(probe, RemoveLoad(probe.state, amount), "removeLoad", amount)
  /\ UNCHANGED storeVars

CallResetLoad ==
  /\ probe.hook = "load"
  /\ probe.calls < MaxCalls
  /\ probe' = Called(probe, ResetLoad(probe.state), "resetLoad", 0)
  /\ UNCHANGED storeVars

NextLoad == CallAddLoad \/ CallRemoveLoad \/ CallResetLoad

\* one object returned by useCognitiveLoad and the calls made on it
SpecLoad == InitLoad /\ [][NextLoad]_vars

\* a goToStep whose range test is missing
GoToStepUnchecked(state, step) == [state EXCEPT !.currentStep = step]

\* nextStep()
NextStep(state) ==
  IF state.currentStep < state.totalSteps - 1
    THEN [state EXCEPT !.currentStep = state.currentStep + 1]
    ELSE state

\* prevStep()
PrevStep(state) ==
  IF state.currentStep > 0 THEN [state EXCEPT !.currentStep = state.currentStep - 1]
  ELSE state

\* goToStep(step)
GoToStep(state, step) ==
  IF step >= 0 /\ step < state.totalSteps THEN [state EXCEPT !.currentStep = step]
  ELSE state

\* completeStep(step)
CompleteStep(state, step) ==
  [state EXCEPT !.completedSteps = state.completedSteps \cup {step}]

\* progressPercentage(), in tenths of a percent; 0 / 0 is NaN
ProgressPercentage(state) ==
  IF state.totalSteps = 0 THEN NaN
  ELSE Finite((Cardinality(state.completedSteps) * 100 * ScoreScale) \div state.totalSteps)

\* the reactive state useProgressiveDisclosure(steps) starts with
StepsState(length) == [currentStep |-> 0, completedSteps |-> {}, totalSteps |-> length]

\* return { ...state, nextStep, ..., progressPercentage: progressPercentage() }
UseProgressiveDisclosure(length) ==
  [hook |-> "steps", state |-> StepsState(length),
   returned |-> [currentStep |-> StepsState(length).currentStep,
                 totalSteps |-> StepsState(length).totalSteps,
                 progressPercentage |-> ProgressPercentage(StepsState(length))],
   calls |-> 0, last |-> [op |-> "none", arg |-> 0]]

\* the step numbers goToStep is called with: below, inside and above the range
StepArgs == (0 - 1)..(MaxSteps + 1)

InitSteps ==
  /\ hasClient = FALSE
  /\ employeesFile = AbsentFile
  /\ teamsFile = AbsentFile
  /\ analysesFile = AbsentFile
  /\ now = 0
  /\ nextId = 1
  /\ ioFaults = 0
  /\ req = [r \in Requests |-> IdleRequest]
  /\ probe \in {UseProgressiveDisclosure(length) : length \in 0..MaxSteps}

CallNextStep ==
  /\ probe.hook = "steps"
  /\ probe.calls < MaxCalls
  /\ probe' = Called(probe, NextStep(probe.state), "nextStep", 0)
  /\ UNCHANGED storeVars

CallPrevStep ==
  /\ probe.hook = "steps"
  /\ probe.calls < MaxCalls
  /\ probe' = Called(probe, PrevStep(probe.state), "prevStep", 0)
  /\ UNCHANGED storeVars

CallGoToStep ==
  /\ probe.hook = "steps"
  /\ probe.calls < MaxCalls
  /\ \E step \in StepArgs :
       probe' = Called(probe, GoToStep(probe.state, step), "goToStep", step)
  /\ UNCHANGED storeVars

\* completeStep(), of the current step
CallCompleteStep ==
  /\ probe.hook = "steps"
  /\ probe.calls < MaxCalls
  /\ probe' = Called(probe, CompleteStep(probe.state, probe.state.currentStep),
                     "completeStep", probe.state.currentStep)
  /\ UNCHANGED storeVars

NextSteps == CallNextStep \/ CallPrevStep \/ CallGoToStep \/ CallCompleteStep

\* one object returned by useProgressiveDisclosure and the calls made on it
SpecSteps == InitSteps /\ [][NextSteps]_vars

(***************************************************************************)
(* Properties.                                                             *)
(***************************************************************************)
\* a handler that holds the result of analyzeEmployee / analyzeTeam
HasResult(r) ==
  /\ req[r].op = "analyze"
  /\ req[r].pc \in {"save_read", "save_write", "done"}
  /\ req[r].result.source # "none"

\* a handler whose saveAnalysis call has returned its record
Appended(r) == req[r].op = "analyze" /\ req[r].pc = "done" /\ req[r].status = 200

\* the step in which the write of r's saveAnalysis completes
AppendCompletes(r) ==
  /\ req[r].pc = "save_write"
  /\ req'[r].pc = "done"
  /\ req'[r].status = 200

\* the records of the stored log
Stored == {analysesFile.data[i] : i \in 1..Len(analysesFile.data)}

\* the provider was called and gave nothing usable: the call raised, the
\* response had no choices, or the message had no content
ProviderFailed(r) ==
  /\ req[r].calls = 1
  /\ \/ req[r].outcome.kind \in {"reject", "nochoices"}
     \/ req[r].outcome.kind = "reply" /\ ~req[r].outcome.content.present

\* the four source tags: live-model, parsed-fallback, mock, error-fallback
SourceTags == {"openai", "openai-parsed", "mock", "fallback"}

\* the tag that belongs to the way r's payload was produced
TagOfWay(r) ==
  IF req[r].calls = 0 THEN "mock"
  ELSE IF ProviderFailed(r) THEN "fallback"
  ELSE IF StrictParseSucceeds(req[r].outcome.content) THEN "openai"
  ELSE "openai-parsed"

MockData(r) ==
  IF req[r].kind = "employee" THEN GetMockEmployeeAnalysis(req[r].subject).data
  ELSE GetMockTeamAnalysis(req[r].subject).data

ScoreFieldsOf(kind) == IF kind = "employee" THEN EmployeeScoreFields ELSE TeamScoreFields
ArrayFieldsOf(kind) == IF kind = "employee" THEN EmployeeArrayFields ELSE TeamArrayFields

\* the log never holds more than the cap
CapInvariant == Len(analysesFile.data) <= MaxAnalyses

\* C1: with no file failure and fewer appends than the cap, every record a
\* completed saveAnalysis call returned is in the stored log, whatever the
\* interleaving of the calls.
C1_NoAppendLost ==
  (ioFaults = 0 /\ nextId - 1 <= MaxAnalyses)
    => \A r \in Requests : Appended(r) => req[r].record \in Stored

\* C2: the stored log never holds more than the cap, and an append that
\* completes on a log holding exactly the cap leaves it holding the cap.
C2_CapKeptByAppend ==
  /\ []CapInvariant
  /\ [][\A r \in Requests :
          (AppendCompletes(r) /\ Len(analysesFile.data) = MaxAnalyses)
            => Len(analysesFile'.data) = MaxAnalyses]_vars

\* C3: eviction is first in, first out: with no file failure, an append that
\* completes on a full log removes exactly the earliest stored record, keeps
\* the others in their order and puts its own record last.
C3_FifoEviction ==
  [][\A r \in Requests :
       (ioFaults' = 0 /\ AppendCompletes(r) /\ Len(analysesFile.data) = MaxAnalyses)
         => analysesFile'.data = Append(Tail(analysesFile.data), req[r].record)]_vars

\* C4: an analyze request for an id the subject store holds, with no file
\* failure, is answered 200 with a result, whatever the provider did.
C4_AnalyzeNeverFailsOnProvider ==
  \A r \in Requests :
    (/\ req[r].op = "analyze"
     /\ req[r].pc = "done"
     /\ Find(Defaults(req[r].kind), req[r].id).id # "none"
     /\ ioFaults = 0)
      => /\ req[r].status = 200
         /\ ~req[r].result.thrown
         /\ req[r].result.success
         /\ req[r].result.source \in SourceTags

\* C4 witness: the provider call raised and the route answered 200
C4_Witness ==
  \E r \in Requests :
    /\ req[r].op = "analyze" /\ req[r].pc = "done"
    /\ req[r].calls = 1 /\ req[r].outcome.kind = "reject"
    /\ req[r].status = 200

\* C5: every result and every stored record carries one of the four source
\* tags, the tag of the way its payload was produced, and the metadata of a
\* record keeps the result's source and success flag and its own timestamp.
C5_SourceTagPerWay ==
  /\ \A r \in Requests :
       HasResult(r) =>
         /\ req[r].result.source = TagOfWay(r)
         /\ req[r].record.metadata.source = req[r].result.source
         /\ req[r].record.metadata.success = req[r].result.success
         /\ req[r].record.metadata.timestamp <= now
  /\ \A a \in Stored : a.metadata.source \in SourceTags

\* C6: with a credential configured, a failed provider call is absorbed: the
\* result is the mock generator's payload tagged error-fallback, not mock,
\* and the record carries that tag.
C6_FailureTaggedErrorFallback ==
  \A r \in Requests :
    (HasResult(r) /\ ProviderFailed(r))
      => /\ ~req[r].result.thrown
         /\ req[r].result.data = MockData(r)
         /\ req[r].result.source = "fallback"
         /\ req[r].record.metadata.source = "fallback"

\* C7: with no credential at construction no request ever makes a provider
\* call, every result is the mock generator's with source mock, and the
\* decision made at construction never changes.
C7_NoCredentialNoCall ==
  /\ [](~hasClient =>
          \A r \in Requests :
            /\ req[r].calls = 0
            /\ req[r].pc # "provider"
            /\ HasResult(r) => (req[r].result.source = "mock"
                                  /\ req[r].result.data = MockData(r)))
  /\ [][hasClient' = hasClient]_vars

\* C7 witness: without a credential an analyze request was answered from
\* the mock generator
C7_Witness ==
  /\ ~hasClient
  /\ \E r \in Requests :
       /\ Appended(r)
       /\ req[r].calls = 0
       /\ req[r].result.source = "mock"

\* the provider's object reached validation with its fields
FieldsValidated ==
  /\ probe.phase = "output"
  /\ probe.hasClient
  /\ probe.outcome.kind = "reply"
  /\ probe.outcome.content.present
  /\ ExtractJSON(probe.outcome.content.text) = <<"{", "m", "}">>

\* a value that reads as no number at all: absent, null, a boolean, an
\* object, or a string or array without a digit in it
NonNumeric(v) ==
  \/ v.t \in {"undef", "null", "bool", "obj"}
  \/ v.t \in {"str", "arr"} /\ \A i \in 1..Len(v.s) : v.s[i] \notin Digits

\* C8: every score of every result lies in [1,10]; a number of the provider's
\* object above 10 becomes 10, below 1 becomes 1, inside the range is kept,
\* and a value that is no number becomes 7.5.
C8_ScoresInRange ==
  probe.phase = "output" =>
    \A k \in ScoreFieldsOf(probe.kind) :
      /\ probe.result.data[k] >= 1 * ScoreScale
      /\ probe.result.data[k] <= 10 * ScoreScale
      /\ FieldsValidated =>
           LET v == probe.fields[k]
               out == probe.result.data[k]
           IN  /\ (v.t = "num" /\ v.n > 10 * ScoreScale) => out = 10 * ScoreScale
               /\ (v.t = "num" /\ v.n < 1 * ScoreScale) => out = 1 * ScoreScale
               /\ (v.t = "num" /\ v.n >= 1 * ScoreScale /\ v.n <= 10 * ScoreScale)
                    => out = v.n
               /\ NonNumeric(v) => out = DefaultScore

\* C8 witness: one score above the range was cut to 10 and one absent score
\* became 7.5
C8_Witness ==
  /\ FieldsValidated
  /\ probe.kind = "employee"
  /\ probe.fields["overallScore"] = Num(150)
  /\ probe.result.data["overallScore"] = 10 * ScoreScale
  /\ probe.fields["performanceScore"] = Undefined
  /\ probe.result.data["performanceScore"] = DefaultScore

\* C9: every array field of every result is an array; when the strict parse
\* succeeds and the parsed value has no array in such a field, the field is a
\* one-element placeholder and the source stays live-model.
C9_ArraysNeverAbsent ==
  probe.phase = "output" =>
    /\ \A k \in ArrayFieldsOf(probe.kind) : probe.result.data[k].t = "arr"
    /\ (probe.hasClient /\ probe.outcome.kind = "reply"
          /\ StrictParseSucceeds(probe.outcome.content))
         => /\ probe.result.source = "openai"
            /\ \A k \in ArrayFieldsOf(probe.kind) :
                 (~FieldsValidated \/ probe.fields[k].t # "arr")
                   => Len(probe.result.data[k].s) = 1

\* C9 witness: strengths came as a string and was replaced, source live-model
C9_Witness ==
  /\ FieldsValidated
  /\ probe.fields["strengths"].t = "str"
  /\ probe.result.data["strengths"].t = "arr"
  /\ Len(probe.result.data["strengths"].s) = 1
  /\ probe.result.source = "openai"

\* C10: parseEmployeeAnalysis / parseTeamAnalysis never raises: for every
\* content value it returns a payload with scores, arrays and a source tag.
C10_InterpreterNeverThrows ==
  probe.phase = "output" =>
    /\ ~probe.result.thrown
    /\ probe.result.source \in {"openai", "openai-parsed"}

\* the interpreter was handed a reply text
ReplyParsed ==
  /\ probe.phase = "output"
  /\ probe.outcome.kind = "reply"
  /\ probe.outcome.content.present

\* the narrative of a text-path payload: developmentPlan for an employee,
\* the description of the one actionPlan entry for a team
Narrative(kind, data) ==
  IF kind = "employee" THEN data.developmentPlan.s
  ELSE SubSeq(data.actionPlan.s, 2, Len(data.actionPlan.s))

\* the first n characters of text followed by the ellipsis
PrefixOf(text, n) ==
  (IF Len(text) <= n THEN text ELSE [i \in 1..n |-> text[i]]) \o <<"...">>

\* the scores the text path gives
TextPathScores(kind) ==
  IF kind = "employee"
    THEN [overallScore |-> 80, performanceScore |-> 82, skillsScore |-> 78,
          potentialScore |-> 85]
    ELSE [teamScore |-> 80, collaborationScore |-> 82, communicationScore |-> 75,
          productivityScore |-> 83]

\* C11: for a reply text the result is tagged live-model exactly when the
\* extracted span parses as JSON and parsed-fallback exactly when it does not;
\* a parsed-fallback payload has the fixed scores and its narrative is the
\* truncated prefix of the reply.
C11_TagByStrictParse ==
  ReplyParsed =>
    LET text == probe.outcome.content.text
        parses == JsonParses(ExtractJSON(text))
    IN  /\ ~probe.result.thrown
        /\ probe.result.source = "openai" <=> parses
        /\ probe.result.source = "openai-parsed" <=> ~parses
        /\ probe.result.source = "openai-parsed" =>
             /\ \A k \in ScoreFieldsOf(probe.kind) :
                  probe.result.data[k] = TextPathScores(probe.kind)[k]
             /\ Narrative(probe.kind, probe.result.data)
                  = PrefixOf(text, IF probe.kind = "employee"
                                     THEN DevelopmentPlanPrefix
                                     ELSE ActionPlanPrefix)

\* a read operation has returned
ReadDone(op) == probe.phase = "output" /\ probe.op = op

\* the stored records of the kind and id asked for
Matching ==
  {i \in 1..Len(analysesFile.data) :
     /\ analysesFile.data[i].type = probe.kind
     /\ analysesFile.data[i].targetId = probe.id}

\* the limit the request asked for
RequestedLimit == IF probe.query.given THEN probe.query.n ELSE DefaultLimit

\* C12: a history request whose read succeeds returns at most the limit it
\* asked for, and exactly the smaller of that limit and the number of stored
\* records of its kind and id; with no such record it returns the empty list.
C12_HistoryAtMostLimit ==
  (ReadDone("history") /\ ReadSucceeds(analysesFile, probe.fault))
    => /\ Len(probe.history) <= RequestedLimit
       /\ Len(probe.history) = Min(RequestedLimit, Cardinality(Matching))
       /\ Cardinality(Matching) = 0 => probe.history = <<>>

\* the step in which r's getAnalysisHistory call returns
HistoryReturns(r) == req[r].pc = "hist_read" /\ req'[r].pc = "done"

\* C13: the history returned holds only records of the kind and id asked
\* for, each with a timestamp strictly greater than the next one's, and no
\* stored record of that kind and id left out is newer than a returned one.
C13_HistoryStrictlyDescending ==
  [][\A r \in Requests :
       HistoryReturns(r) =>
         LET history == req'[r].history
             returned == {history[i] : i \in 1..Len(history)}
             matching == {a \in Stored : a.type = req[r].kind /\ a.targetId = req[r].id}
         IN  /\ \A a \in returned : a.type = req[r].kind /\ a.targetId = req[r].id
             /\ \A i \in 1..(Len(history) - 1) :
                  history[i].metadata.timestamp > history[i + 1].metadata.timestamp
             /\ \A a \in matching \ returned : \A b \in returned :
                  a.metadata.timestamp <= b.metadata.timestamp]_vars

\* the read of analyses.json failed: the file is absent or does not parse,
\* or the read itself raised
ReadFailed == ~ReadSucceeds(analysesFile, probe.fault)

\* C18: when analyses.json is unreadable, absent or does not parse, the
\* history is the empty list, the latest record is none and the statistics
\* are all zero.
C18_ReadsDegradeToEmpty ==
  (probe.phase = "output" /\ ReadFailed)
    => /\ probe.op = "history" => probe.history = <<>>
       /\ probe.op = "latest" => probe.latest = NoRecord
       /\ probe.op = "stats" =>
            /\ probe.stats.total = 0
            /\ probe.stats.thisMonth = 0
            /\ probe.stats.thisWeek = 0
            /\ probe.stats.byType = [employee |-> 0, team |-> 0]
            /\ probe.stats.bySource = [openai |-> 0, mock |-> 0, fallback |-> 0]

\* C18 witness: the read of a log that holds records of the subject raised
\* and the history came back empty
C18_Witness ==
  /\ ReadDone("history")
  /\ probe.fault
  /\ analysesFile.state = "ok"
  /\ Cardinality(Matching) > 0
  /\ probe.history = <<>>

\* the step in which the write of r's saveAnalysis fails
WriteFails(r) ==
  /\ req[r].pc = "save_write"
  /\ req'[r].pc = "done"
  /\ ioFaults' = ioFaults + 1

\* C19: when the write of the log fails inside saveAnalysis the analyze
\* route answers 500 and the stored log is what it was before.
C19_FailedWriteLeavesLog ==
  [][\A r \in Requests :
       WriteFails(r) => (req'[r].status = 500 /\ analysesFile' = analysesFile)]_vars

\* s holds elements of t only, in the order they have in t
RECURSIVE IsSubseq(_, _)
IsSubseq(s, t) ==
  IF Len(s) = 0 THEN TRUE
  ELSE IF Len(t) = 0 THEN FALSE
  ELSE IF Head(s) = Head(t) THEN IsSubseq(Tail(s), Tail(t))
  ELSE IsSubseq(s, Tail(t))

\* a record that is in the log before and after a step is the same record
RecordsImmutable ==
  [][\A a \in Stored :
       \A i \in 1..Len(analysesFile'.data) :
         analysesFile'.data[i].id = a.id => analysesFile'.data[i] = a]_vars

\* C20: a stored record never changes while it is in the log, and, with no
\* file failure, a successful append leaves a log made of previously stored
\* records, in the order they had, followed by the new record.
C20_AppendOnlyLog ==
  /\ RecordsImmutable
  /\ [][\A r \in Requests :
          (ioFaults' = 0 /\ AppendCompletes(r)) =>
            LET new == analysesFile'.data
            IN  /\ Len(new) >= 1
                /\ new[Len(new)] = req[r].record
                /\ IsSubseq(SubSeq(new, 1, Len(new) - 1), analysesFile.data)]_vars


\* the ids of a list that the subject list holds, and those it does not
KnownIds(ids, subjects) ==
  LET Known(id) == Find(subjects, id).id # "none" IN SelectSeq(ids, Known)
UnknownIds(ids, subjects) ==
  LET Unknown(id) == Find(subjects, id).id = "none" IN SelectSeq(ids, Unknown)

\* a batch analyze request over a non-empty list has been answered
BatchDone(r) ==
  req[r].op = "batch" /\ req[r].pc = "done" /\ Len(req[r].ids) > 0

\* C14: a batch analyze request over a non-empty list of ids goes through
\* every id whatever happened to the earlier ones and is answered 200 with
\* successful + failed = number of ids; when no file operation failed, the
\* successful list has one entry for each listed id the subject store holds
\* and the failed list one entry for each listed id it does not hold.
C14_BatchProcessesEveryId ==
  \A r \in RouteRequests :
    BatchDone(r) =>
      /\ req[r].status = 200
      /\ req[r].idx = Len(req[r].ids)
      /\ Len(req[r].results) + Len(req[r].errors) = Len(req[r].ids)
      /\ \A i \in 1..Len(req[r].results) : req[r].results[i].success
      /\ ioFaults = 0 =>
           /\ [i \in 1..Len(req[r].results) |-> req[r].results[i].employeeId]
                = KnownIds(req[r].ids, employeesFile.data)
           /\ [i \in 1..Len(req[r].errors) |-> req[r].errors[i].employeeId]
                = UnknownIds(req[r].ids, employeesFile.data)

\* a batch whose first id is unknown and whose second id was analysed and stored
C14_Witness ==
  \E r \in RouteRequests :
    /\ BatchDone(r)
    /\ ioFaults = 0
    /\ req[r].ids = <<"missing", "1">>
    /\ Len(req[r].errors) = 1
    /\ Len(req[r].results) = 1
    /\ \E i \in 1..Len(analysesFile.data) : analysesFile.data[i].targetId = "1"

\* a compare request over two ids or more has been answered
CompareDone(r) ==
  req[r].op = "compare" /\ req[r].pc = "done" /\ Len(req[r].ids) >= 2

\* the stored records of a team
TeamRecords(teamId) ==
  {i \in 1..Len(analysesFile.data) :
     analysesFile.data[i].type = "team" /\ analysesFile.data[i].targetId = teamId}

\* the entry carries the payload and time of a most recent record of its
\* team, or nulls when the team has no record
CarriesLatest(entry) ==
  IF TeamRecords(entry.teamId) = {}
    THEN entry.analysis = NoData /\ entry.analyzedAt = Null
    ELSE \E i \in TeamRecords(entry.teamId) :
           /\ \A j \in TeamRecords(entry.teamId) :
                analysesFile.data[j].metadata.timestamp
                  <= analysesFile.data[i].metadata.timestamp
           /\ entry.analysis = analysesFile.data[i].analysis
           /\ entry.analyzedAt = Num(analysesFile.data[i].metadata.timestamp)

\* C16: a compare request is answered 200 with comparisons + errors = number
\* of ids; when no file operation failed, comparisons has one entry per
\* listed id of an existing team, carrying the payload and time of a most
\* recent record of that team or nulls when it has none, and errors has one
\* entry per unknown id.
C16_CompareLatestOrNull ==
  \A r \in RouteRequests :
    CompareDone(r) =>
      /\ req[r].status = 200
      /\ Len(req[r].comparisons) + Len(req[r].errors) = Len(req[r].ids)
      /\ ioFaults = 0 =>
           /\ [i \in 1..Len(req[r].comparisons) |-> req[r].comparisons[i].teamId]
                = KnownIds(req[r].ids, teamsFile.data)
           /\ [i \in 1..Len(req[r].errors) |-> req[r].errors[i].teamId]
                = UnknownIds(req[r].ids, teamsFile.data)
           /\ \A i \in 1..Len(req[r].comparisons) : CarriesLatest(req[r].comparisons[i])

\* an unknown id, then a team whose two records differ in time and payload
C16_Witness ==
  \E r \in RouteRequests :
    /\ CompareDone(r)
    /\ ioFaults = 0
    /\ req[r].ids = <<"missing", "1">>
    /\ Len(req[r].errors) = 1
    /\ Len(req[r].comparisons) = 1
    /\ req[r].comparisons[1].analysis # NoData
    /\ Len(analysesFile.data) = 2
    /\ analysesFile.data[1].metadata.timestamp > analysesFile.data[2].metadata.timestamp
    /\ analysesFile.data[1].analysis # analysesFile.data[2].analysis

\* C17: no step of a compare request calls the provider, draws a record id
\* or changes the record log, whatever the list of ids.
C17_CompareTriggersNoAnalysis ==
  [][\A r \in RouteRequests :
       req'[r].op = "compare" =>
         /\ req'[r].calls = 0
         /\ analysesFile' = analysesFile
         /\ nextId' = nextId]_vars

\* a compare, with a credential present, answered for a team that has records
C17_Witness ==
  \E r \in RouteRequests :
    /\ CompareDone(r)
    /\ hasClient
    /\ Len(req[r].comparisons) > 0
    /\ Len(analysesFile.data) > 0
    /\ req[r].calls = 0

\* the request is an analyze, detail or history request for an id that no
\* subject of its kind has
ForAbsentId(q) ==
  /\ q.op \in {"analyze", "detail", "history"}
  /\ \A i \in 1..Len(Defaults(q.kind)) : Defaults(q.kind)[i].id # q.id

\* C15: an analyze, detail or history request for an id absent from the
\* subject store makes no provider call, draws no record id and leaves the
\* record log as it was at every step, and is answered 404 (when no file
\* operation failed; 500 is the only other answer).
C15_AbsentIdNotFound ==
  [][\A r \in RouteRequests :
       ForAbsentId(req'[r]) =>
         /\ req'[r].calls = 0
         /\ req'[r].record = NoRecord
         /\ analysesFile' = analysesFile
         /\ nextId' = nextId
         /\ req'[r].pc = "done" =>
              /\ req'[r].status \in {404, 500}
              /\ ioFaults' = 0 => req'[r].status = 404]_vars

\* an analyze request for an unknown id answered 404, a credential present
\* and a record in the log
C15_Witness ==
  \E r \in RouteRequests :
    /\ ForAbsentId(req[r])
    /\ req[r].op = "analyze"
    /\ req[r].pc = "done"
    /\ req[r].status = 404
    /\ hasClient
    /\ Len(analysesFile.data) > 0

\* the stored records of the kind and subject id of record a
SameSubject(a) == {b \in Stored : b.type = a.type /\ b.targetId = a.targetId}

\* C21: with no file failure, the step that completes an analyze call's
\* saveAnalysis puts exactly one new record in the log, of the requested
\* kind and subject id and with the payload and source tag of the result the
\* caller gets, and below the cap every earlier record of that subject is
\* still stored next to it: a second call never overwrites the first.
C21_AnalyzeAddsOneRecord ==
  [][\A r \in Requests :
       (ioFaults' = 0 /\ AppendCompletes(r)) =>
         LET record == req'[r].record
             new == analysesFile'.data
         IN  /\ record.type = req[r].kind
             /\ record.targetId = req[r].id
             /\ record.analysis = req'[r].result.data
             /\ record.metadata.source = req'[r].result.source
             /\ Cardinality({i \in 1..Len(new) : new[i].id = record.id}) = 1
             /\ \A i \in 1..Len(new) : new[i].id = record.id => new[i] = record
             /\ Len(analysesFile.data) < MaxAnalyses =>
                  \A a \in SameSubject(record) :
                    \E i \in 1..Len(new) : new[i] = a]_vars

\* the stored records that carry a source tag
TaggedAs(source) ==
  Cardinality({i \in 1..Len(analysesFile.data) :
                 analysesFile.data[i].metadata.source = source})

\* C22: when getAnalysisStats has read the log, total is the number of
\* stored records, the counts by kind add up to total, each source bucket
\* counts the records carrying its tag, and the counts by source add up to
\* total: every stored record is counted in a source bucket.
C22_StatsAddUp ==
  (ReadDone("stats") /\ ReadSucceeds(analysesFile, probe.fault)) =>
    /\ probe.stats.total = Len(analysesFile.data)
    /\ probe.stats.byType.employee + probe.stats.byType.team = probe.stats.total
    /\ probe.stats.bySource.openai = TaggedAs("openai")
    /\ probe.stats.bySource.mock = TaggedAs("mock")
    /\ probe.stats.bySource.openai + probe.stats.bySource.mock
         + probe.stats.bySource.fallback = probe.stats.total

\* the slots of the prompt of a kind
PromptSlots(kind) == IF kind = "employee" THEN EmployeePromptFields ELSE TeamPromptFields

\* C23: in the compiled user prompt no slot is blank or rendered as an
\* undefined value, whatever fields the subject lacks: the slot of a missing
\* field, name, position and department included, shows a default text.
C23_NoSlotUndefined ==
  probe.phase = "output" =>
    \A slot \in PromptSlots(probe.kind) :
      /\ Len(probe.prompt[slot]) > 0
      /\ \A i \in 1..Len(probe.prompt[slot]) : probe.prompt[slot][i] # "undefined"

\* the ids of the subjects a file holds
StoredIds(file) == {file.data[i].id : i \in 1..Len(file.data)}

\* the step is the completion of a saveEmployees inside addEmployee or
\* updateEmployee
CreateOrUpdateWrites == \E r \in Requests : req[r].pc = "add_write"

\* C24: a stored subject list is changed only by the write of addEmployee or
\* updateEmployee, whatever the outcome of the file reads of the other
\* operations, and a subject once stored is still stored after every step
\* (steps from or to a file that a failed write cut short aside).
C24_SubjectsOnlyByCreateUpdate ==
  [][/\ (employeesFile.state = "ok" /\ employeesFile'.state = "ok") =>
          /\ StoredIds(employeesFile) \subseteq StoredIds(employeesFile')
          /\ employeesFile' # employeesFile => CreateOrUpdateWrites
     /\ (teamsFile.state = "ok" /\ teamsFile'.state = "ok") =>
          teamsFile' = teamsFile]_vars

\* C25: after any calls of addLoad, removeLoad and resetLoad, the
\* currentLoad read from the object useCognitiveLoad returned is the running
\* total kept within 0..maxLoad, its loadPercentage is currentLoad / maxLoad
\* * 100, both are 0 after resetLoad, and its isOverloaded is true exactly
\* when the load has reached maxLoad.
C25_ReturnedLoadFollowsCalls ==
  probe.hook = "load" =>
    /\ probe.state.currentLoad \in 0..probe.state.maxLoad
    /\ probe.returned.maxLoad = MaxVisibleItems
    /\ probe.returned.currentLoad = probe.state.currentLoad
    /\ probe.returned.loadPercentage
         = (probe.returned.currentLoad * 100 * ScoreScale) \div probe.returned.maxLoad
    /\ probe.last.op = "resetLoad" =>
         (probe.returned.currentLoad = 0 /\ probe.returned.loadPercentage = 0)
    /\ probe.returned.isOverloaded <=> probe.state.currentLoad >= probe.state.maxLoad

\* the current step is a step of the list
StepInRange ==
  (probe.hook = "steps" /\ probe.state.totalSteps >= 1)
    => probe.state.currentStep \in 0..(probe.state.totalSteps - 1)

RECURSIVE CloseOf(_, _, _)
CloseOf(c, k, depth) ==
  IF k > Len(c) THEN 0
  ELSE IF c[k] = "{" THEN CloseOf(c, k + 1, depth + 1)
  ELSE IF c[k] = "}" THEN (IF depth = 1 THEN k ELSE CloseOf(c, k + 1, depth - 1))
  ELSE CloseOf(c, k + 1, depth)

\* the opening braces that start a balanced span, and those of them that
\* stand in a fenced block
BalancedFrom(c) == {i \in 1..Len(c) : c[i] = "{" /\ CloseOf(c, i + 1, 1) > 0}
FencedFrom(c) ==
  {i \in BalancedFrom(c) :
     /\ i > 1 /\ c[i - 1] = "F"
     /\ CloseOf(c, i + 1, 1) < Len(c) /\ c[CloseOf(c, i + 1, 1) + 1] = "F"}

\* the span the extraction order names: the object of the first fenced
\* block, else the first balanced span, else the raw text
OrderedSpan(c) ==
  IF FencedFrom(c) # {}
    THEN SubSeq(c, SetMin(FencedFrom(c)), CloseOf(c, SetMin(FencedFrom(c)) + 1, 1))
  ELSE IF BalancedFrom(c) # {}
    THEN SubSeq(c, SetMin(BalancedFrom(c)), CloseOf(c, SetMin(BalancedFrom(c)) + 1, 1))
  ELSE c

\* the first opening brace of the text is never closed
FirstBraceOpen(c) ==
  /\ \E i \in 1..Len(c) : c[i] = "{"
  /\ CloseOf(c, SetMin({i \in 1..Len(c) : c[i] = "{"}) + 1, 1) = 0

\* C27: the span handed to JSON.parse is the object literal of a fenced
\* block when the reply has one, otherwise the first balanced {...} span,
\* from the first opening brace to its matching closing brace and no
\* further, otherwise the whole text (replies whose first opening brace is
\* never closed aside).
C27_SpanByExtractionOrder ==
  (/\ probe.phase = "output"
   /\ probe.outcome.content.present
   /\ ~FirstBraceOpen(probe.outcome.content.text))
    => probe.span = OrderedSpan(probe.outcome.content.text)

\* the handler is waiting for the provider call it issued
AtProvider(q) == q.pc \in {"provider", "b_provider"}

\* the provider call gave nothing usable: it raised, or the response had no
\* choices or no content
CallFailed(outcome) ==
  \/ outcome.kind \in {"reject", "nochoices"}
  \/ outcome.kind = "reply" /\ ~outcome.content.present

\* what getFallbackEmployeeAnalysis / getFallbackTeamAnalysis return for the
\* subject of the request
FallbackOf(q) ==
  IF q.kind = "employee" THEN GetFallbackEmployeeAnalysis(q.subject)
  ELSE GetFallbackTeamAnalysis(q.subject)

\* one provider call at most for an analyze, one per id reached for a batch
CallsBounded ==
  \A r \in Requests :
    /\ req[r].op # "batch" => req[r].calls <= 1
    /\ req[r].op = "batch" =>
         (req[r].calls <= req[r].idx /\ req[r].calls <= Len(req[r].ids))

\* C28: there is no retry.  A single analyze makes at most one provider
\* call and a batch at most one per id it has reached, so at most n for n
\* ids; the step in which a provider call settles issues no further call,
\* and after a call that failed the result is the fallback.
C28_NoRetry ==
  /\ []CallsBounded
  /\ [][\A r \in Requests :
          (AtProvider(req[r]) /\ req'[r] # req[r]) =>
            /\ ~AtProvider(req'[r])
            /\ req'[r].calls = req[r].calls
            /\ CallFailed(req'[r].outcome) => req'[r].result = FallbackOf(req[r])]_vars

\* a batch of MaxBatch ids answered after one provider call per id, the
\* last of which failed and was answered from the fallback
C28_Witness ==
  \E r \in RouteRequests :
    /\ BatchDone(r)
    /\ hasClient
    /\ Len(req[r].ids) = MaxBatch
    /\ req[r].calls = MaxBatch
    /\ Len(req[r].results) >= 1
    /\ CallFailed(req[r].outcome)

\* the stored log is in the order of its timestamps, as appends made one
\* after the other leave it
InTimeOrder ==
  \A i, j \in 1..Len(analysesFile.data) :
    i < j => analysesFile.data[i].metadata.timestamp
               <= analysesFile.data[j].metadata.timestamp

\* C29: on a log that appends made one after the other have left,
\* getLatestAnalysis(kind, id) returns none when the log holds no record of
\* that kind and id and otherwise the one of them appended last, also when
\* several of them carry the same timestamp.
C29_LatestIsLastAppended ==
  (ReadDone("latest") /\ ~ReadFailed /\ InTimeOrder) =>
    probe.latest = IF Matching = {} THEN NoRecord
                   ELSE analysesFile.data[SetMax(Matching)]


\* the stored records that the step removes from the log
Removed == Stored \ {analysesFile'.data[i] : i \in 1..Len(analysesFile'.data)}

\* C30: the step that completes a successful saveAnalysis on a readable
\* record file removes at most one stored record, and removes one only when
\* the log already held the cap: a failed read inside saveAnalysis does not
\* replace the stored history with a log of the new record alone.
C30_AppendKeepsHistory ==
  [][\A r \in Requests :
       (AppendCompletes(r) /\ analysesFile.state = "ok") =>
         /\ Cardinality(Removed) <= 1
         /\ Removed # {} => Len(analysesFile.data) = MaxAnalyses]_vars

=============================================================================
